---- MODULE Spec2Model ----
(***************************************************************************)
(* Model of the provider orchestration core of ai-content-studio:          *)
(*   - the queued image/video adapters (callReplicate, callFal,            *)
(*     generateSceneVideo) with their submit / sleep / poll loops, and the *)
(*     adapters that answer in one request,                                *)
(*   - the streaming text client callGPTStream,                            *)
(*   - the plan parser parseContentPlan,                                   *)
(*   - the generation handlers and status maps of the page,                *)
(*   - the submit requests of generateSceneVideo and generateSceneImage,   *)
(*   - the speech request of a dialogue line.                              *)
(* Strings are modelled as TLA+ strings when they are opaque (URLs,        *)
(* messages) and as sequences of symbols when the code looks inside them   *)
(* (the event stream, the raw plan text).  The JavaScript falsy values     *)
(* undefined / null / "" of a string-valued field are all written "".      *)
(***************************************************************************)
EXTENDS Integers, Sequences, FiniteSets, TLC

VARIABLES
    \* ---- one call of a queued adapter ----
    provider,      \* which adapter runs: "replicate" | "fal" | "video"
    jpc,           \* position in the adapter: "submit" | "sleep" | "poll" | "fetch" | "done"
    i,             \* the for-loop counter
    pred,          \* last decoded response body (pred / submission / sd)
    outcome,       \* what the call returned or threw
    submits,       \* number of submit requests sent
    polls,         \* number of status requests sent
    delays,        \* number of sleep() calls
    slept,         \* milliseconds spent in sleep() calls
    fetches,       \* number of final-result requests sent
    firstSuccessAt,\* poll number at which the provider first reported success (0: not yet)
    cleanPending,  \* every status report so far but a terminal one was a well-formed non-terminal report
    sawFailure,    \* the provider reported an explicit failed state
    httpFailed,    \* a status or result request was answered with a non-success HTTP status
    submitTerminal,\* the submit response was already terminal
    rejection,     \* the non-success response to the submit request, if there was one
    invocations,   \* number of invocations of an adapter so far, this one included
    allSubmits,    \* number of submit requests sent by all invocations
    \* ---- one call of callGPTStream ----
    spc,           \* "fetch" | "read" | "done"
    frames,        \* the event frames the server sends (input)
    net,           \* bytes of the response body not yet read
    fullText,      \* the local fullText
    chunkCalls,    \* arguments of the onChunk calls, in order
    doneCalls,     \* arguments of the onDone calls, in order
    errorCalls,    \* arguments of the onError calls, in order
    threw,         \* caller callbacks that threw
    cause,         \* why the stream ended abnormally: "none" | "transport" | "status" | "nobody"
    \* ---- one call of parseContentPlan ----
    ppc,           \* "call" | "done" | "reparsed"
    rawText,       \* the raw model text (symbols)
    doc,           \* the JSON document the symbol "D" of rawText stands for
    parsed,        \* the returned plan or the thrown error
    reparsed,      \* what parsing the serialization of the returned plan gives
    \* ---- the page: plan, status maps and provider calls in flight ----
    plan,          \* the plan state of the page (NoPlan: null)
    streaming,     \* a planning request is running
    planError,     \* the error string of the planning tab
    imgStatus,     \* scene id -> status of the scene's image
    imgError,      \* scene id -> message of the image's last error
    vidStatus,     \* scene id -> status of the scene's video
    vidError,      \* scene id -> message of the video's last error
    narStatus,     \* scene id -> status of the scene's narration
    dlgStatus,     \* scene id -> status of the scene's dialogue line
    calls,         \* the provider calls in flight
    nextCall,      \* number of the next provider call
    bulks,         \* the generateAllImages operations started so far
    lastStart,     \* the latest generation start: unit, and its status and error before
    firstDone,     \* the latest call that resolved while calls for other units were in flight
    staleCalls,    \* the numbers of the calls in flight that started before the latest planning request
    \* ---- the submit request of one call of generateSceneVideo ----
    vpc,           \* "call" | "sent"
    videoParams,   \* the params argument
    videoBody,     \* the body of the submit request
    \* --- the submit request of generateSceneImage ---
    ipc,           \* "call" | "sent"
    imageParams,   \* the params argument
    imageBody,     \* the input / body of the submit request and the model it goes to
    \* --- the speech request of generateDialogue ---
    cpc,           \* "call" | "ended"
    voiceInput,    \* the plan's characters, the line, the selected provider and its key
    voiceRequest,  \* the params given to generateVoice and the voice the request is sent for
    dlgResult,     \* "none" | "returned" | "running" | "failed"
    \* --- one generation request of the page, from the click to its last write ---
    upc,           \* "idle" | "awaiting" | "ended"
    unitStatus     \* the status of the unit: "idle" | "running" | "completed" | "failed"

jobVars == <<provider, jpc, i, pred, outcome, submits, polls, delays, slept, fetches,
             firstSuccessAt, cleanPending, sawFailure, httpFailed, submitTerminal,
             rejection, invocations, allSubmits>>
streamVars == <<spc, frames, net, fullText, chunkCalls, doneCalls, errorCalls, threw, cause>>
parseVars == <<ppc, rawText, doc, parsed, reparsed>>
pageVars == <<plan, streaming, planError, imgStatus, imgError, vidStatus, vidError, narStatus, dlgStatus,
              calls, nextCall, bulks, lastStart, firstDone, staleCalls>>
requestVars == <<vpc, videoParams, videoBody, ipc, imageParams, imageBody,
                 cpc, voiceInput, voiceRequest, dlgResult, upc, unitStatus>>
vars == <<jobVars, streamVars, parseVars, pageVars, requestVars>>

(***************************************************************************)
(* Shared helpers                                                          *)
(***************************************************************************)
\* JavaScript a || b on string-valued fields
Or(a, b) == IF a # "" THEN a ELSE b

Ok(u) == [kind |-> "ok", val |-> u]
Err(m) == [kind |-> "error", val |-> m]
NoOutcome == [kind |-> "none", val |-> ""]

Urls == {"", "u1", "u2"}

\* no speech request was sent
NoVoiceRequest == [sent |-> FALSE, provider |-> "", voice |-> "", voiceId |-> ""]

\* body of a non-success HTTP response: err.detail, err.message, err.error.message
ErrorBodies == [detail : {"", "detail text"}, message : {"", "message text"},
                errorMessage : {"", "bad key"}]
EmptyBody == [detail |-> "", message |-> "", errorMessage |-> ""]

\* a non-success HTTP response: its body is JSON or not, and it has a status text
\* (empty over HTTP/2)
ErrorResponses ==
    { [rejected |-> TRUE, json |-> TRUE, statusText |-> "Unauthorized", body |-> b] :
        b \in ErrorBodies }
    \cup { [rejected |-> TRUE, json |-> FALSE, statusText |-> st, body |-> EmptyBody] :
             st \in {"", "Unauthorized"} }
NoRejection == [rejected |-> FALSE, json |-> FALSE, statusText |-> "", body |-> EmptyBody]

(***************************************************************************)
(* imageAI.ts / videoAI: the queued adapters                               *)
(***************************************************************************)
\* the queued adapters callReplicate, callFal and generateSceneVideo, and the
\* adapters that answer in one request: callOpenAI (image), callOpenAITTS,
\* callElevenLabs and callGPT
QueuedProviders == {"replicate", "fal", "video"}
SyncProviders == {"openai", "openai-tts", "elevenlabs", "gpt"}
Providers == QueuedProviders \cup SyncProviders

MaxInvocations == 2

REPLICATE_MAX_ATTEMPTS == 60
FAL_MAX_ATTEMPTS == 60
VIDEO_MAX_ATTEMPTS == 150

MaxAttempts(p) ==
    CASE p = "replicate" -> REPLICATE_MAX_ATTEMPTS
      [] p = "fal" -> FAL_MAX_ATTEMPTS
      [] p = "video" -> VIDEO_MAX_ATTEMPTS

\* ---- response bodies the providers can send ----
\* Replicate prediction: status, output (a string or an array of strings), error
ReplicateOutputs ==
    { [array |-> FALSE, vals |-> <<u>>] : u \in Urls }
    \cup { [array |-> TRUE, vals |-> s] : s \in {<<>>, <<"u1">>, <<"", "u2">>, <<"u1", "u2">>} }
ReplicatePredictions ==
    [status : {"processing", "succeeded", "failed", ""}, output : ReplicateOutputs,
     error : {"", "provider detail"}]

\* FAL image payload: images[0].url, image.url; a submission also carries request_id
FalPayloads == [images0 : Urls, image : Urls]
\* FAL video payload: video.url, videos[0].url, output.video.url, url
VideoPayloads == [video : Urls, videos0 : Urls, outputVideo : Urls, url : Urls]
Payloads(p) == IF p = "fal" THEN FalPayloads ELSE VideoPayloads

\* FAL queue status report
FalStatuses == [status : {"IN_PROGRESS", "COMPLETED", "FAILED", ""},
                error : {"", "provider detail"}]

\* ---- the code's decisions ----
\* imageAI.ts:84 / :90   pred.status === "succeeded"
replicateSucceeded_NeverDetected(p) == FALSE
replicateSucceeded(p) == p.status = "succeeded"

\* imageAI.ts:91   pred.status === "failed"
replicateFailed_NeverDetected(p) == FALSE
replicateFailed(p) == p.status = "failed"

\* imageAI.ts:133, voiceAI.ts:207   status === "COMPLETED"
falCompleted(sd) == sd.status = "COMPLETED"

\* imageAI.ts:138, voiceAI.ts:215   status === "FAILED"
falFailed(sd) == sd.status = "FAILED"

\* imageAI.ts:126, voiceAI.ts:193   !submission.request_id
falImmediate_AlwaysQueued(requestId) == FALSE
falImmediate(requestId) == requestId = ""

\* imageAI.ts:95-97
extractReplicateUrl(p) ==
    LET outputUrl == IF p.output.array
                     THEN (IF Len(p.output.vals) > 0 THEN p.output.vals[1] ELSE "")
                     ELSE p.output.vals[1]
    IN IF outputUrl = "" THEN Err("No output URL from Replicate") ELSE Ok(outputUrl)

\* imageAI.ts:144-148
extractFalUrl(result) ==
    LET url == Or(result.images0, result.image)
    IN IF url = "" THEN Err("No image URL in FAL response") ELSE Ok(url)

\* voiceAI.ts:224-232
extractVideoUrl_LastPathFirst(result) ==
    LET url == Or(result.url, Or(result.outputVideo, Or(result.videos0, result.video)))
    IN IF url = "" THEN Err("No video URL in FAL response") ELSE Ok(url)
extractVideoUrl(result) ==
    LET url == Or(result.video, Or(result.videos0, Or(result.outputVideo, result.url)))
    IN IF url = "" THEN Err("No video URL in FAL response") ELSE Ok(url)

extractUrl(p, result) ==
    CASE p = "replicate" -> extractReplicateUrl(result)
      [] p = "fal" -> extractFalUrl(result)
      [] p = "video" -> extractVideoUrl(result)

\* OpenAI image response: data[0].url, data[0].b64_json
OpenAIPayloads == [url : {"", "u1"}, b64 : {"", "bytes"}]
\* chat completion: choices[0].message.content
GPTPayloads == [content : {"", "text"}]
\* audio response of the speech providers
AudioPayloads == [blob : {"audio"}]
SyncPayloads(p) ==
    CASE p = "openai" -> OpenAIPayloads
      [] p = "gpt" -> GPTPayloads
      [] p \in {"openai-tts", "elevenlabs"} -> AudioPayloads

\* imageAI.ts:172-176, voiceAI.ts:61-62, :93-94, :342-343: what an adapter that
\* answers in one request returns for a success response
syncResult(p, body) ==
    CASE p = "openai" ->
           IF body.url # "" THEN Ok(body.url)
           ELSE IF body.b64 # "" THEN Ok("data:image/png;base64," \o body.b64)
           ELSE Err("No image in OpenAI response")
      [] p = "gpt" -> Ok(body.content)
      [] p \in {"openai-tts", "elevenlabs"} -> Ok("blob:" \o body.blob)

\* await res.json().catch(() => fallback): the decoded body of a non-success
\* response (imageAI.ts:77, :121, :168, voiceAI.ts:57, :89, :186, :340)
decodeError(p, response) ==
    IF response.json THEN response.body
    ELSE CASE p \in {"openai-tts", "gpt"} ->
                [EmptyBody EXCEPT !.errorMessage = response.statusText]
           [] p = "elevenlabs" -> [EmptyBody EXCEPT !.detail = response.statusText]
           [] p \in {"replicate", "fal", "video", "openai"} -> EmptyBody

\* imageAI.ts:78, :122, :169, voiceAI.ts:58, :90, :187, :341   message of a
\* rejected submit
submitErrorMessage_AlwaysGeneric(p, err) == "error 401"
submitErrorMessage(p, err) ==
    CASE p = "replicate" -> Or(err.detail, "Replicate error 401")
      [] p = "fal" -> Or(err.detail, "FAL error 401")
      [] p = "video" -> Or(err.detail, Or(err.message, "FAL Video error 401"))
      [] p = "openai" -> Or(err.errorMessage, "OpenAI error 401")
      [] p = "openai-tts" -> Or(err.errorMessage, "OpenAI TTS error 401")
      [] p = "elevenlabs" -> Or(err.detail, "ElevenLabs error 401")
      [] p = "gpt" -> Or(err.errorMessage, "GPT API error 401")

\* throw new Error(...) after a rejected submit: the adapter is left
\* (imageAI.ts:78)
afterRejection_Retries == "submit"
afterRejection == "done"

\* imageAI.ts:91, :138, voiceAI.ts:216   message of a provider-reported failure
failureMessage(p, report) ==
    CASE p = "replicate" -> Or(report.error, "Replicate failed")
      [] p = "fal" -> Or(report.error, "FAL failed")
      [] p = "video" -> Or(report.error, "FAL Video generation failed")

\* imageAI.ts:140, voiceAI.ts:220   what the call does when the loop runs out.
\* callReplicate has no throw after its loop: it falls through to the extraction
\* of the last prediction (imageAI.ts:92-97).
exhausted(p, last) ==
    CASE p = "replicate" -> extractReplicateUrl(last)
      [] p = "fal" -> Err("FAL timeout")
      [] p = "video" -> Err("FAL Video timeout (7.5 minutes)")

InitJob ==
    /\ provider \in Providers
    /\ jpc = "submit"
    /\ i = 0
    /\ pred = [status |-> ""]
    /\ outcome = NoOutcome
    /\ submits = 0 /\ polls = 0 /\ delays = 0 /\ slept = 0 /\ fetches = 0
    /\ firstSuccessAt = 0
    /\ cleanPending = TRUE
    /\ sawFailure = FALSE
    /\ httpFailed = FALSE
    /\ submitTerminal = FALSE
    /\ rejection = NoRejection
    /\ invocations = 1
    /\ allSubmits = 0
    /\ spc = "done"
    /\ frames = <<>>
    /\ net = <<>>
    /\ fullText = <<>>
    /\ chunkCalls = <<>>
    /\ doneCalls = <<>>
    /\ errorCalls = <<>>
    /\ threw = {}
    /\ cause = "none"
    /\ ppc = "done"
    /\ rawText = <<>>
    /\ doc = [kind |-> "malformed", parts |-> FALSE, scenesKind |-> "absent", scenes |-> <<>>]
    /\ parsed = [kind |-> "none"]
    /\ reparsed = [kind |-> "none"]
    /\ plan = [loaded |-> FALSE, scenes |-> <<>>, characters |-> <<>>]
    /\ streaming = FALSE
    /\ planError = ""
    /\ imgStatus = [s \in {"s1", "s2"} |-> "idle"]
    /\ imgError = [s \in {"s1", "s2"} |-> ""]
    /\ vidStatus = [s \in {"s1", "s2"} |-> "idle"]
    /\ vidError = [s \in {"s1", "s2"} |-> ""]
    /\ narStatus = [s \in {"s1", "s2"} |-> "idle"]
    /\ dlgStatus = [s \in {"s1", "s2"} |-> "idle"]
    /\ calls = {}
    /\ nextCall = 1
    /\ bulks = <<>>
    /\ lastStart = [kind |-> "none", id |-> "", status |-> "idle", error |-> ""]
    /\ firstDone = [n |-> 0, kind |-> "none", id |-> "", with |-> {}]
    /\ staleCalls = {}
    /\ vpc = "sent"
    /\ videoParams = [model |-> "luma", durationSeconds |-> [given |-> FALSE, seconds |-> 0],
                      aspectRatio |-> "", imageUrl |-> ""]
    /\ videoBody = [duration |-> "", image_url |-> "", aspect_ratio |-> ""]
    /\ ipc = "sent"
    /\ imageParams = [provider |-> "openai", model |-> "gpt-image-1", referenceImageUrl |-> "",
                      outputFormat |-> ""]
    /\ imageBody = [target |-> "", image_url |-> "", image_prompt |-> "", output_format |-> ""]
    /\ cpc = "ended"
    /\ voiceInput = [characters |-> [present |-> TRUE, list |-> <<>>], characterId |-> "",
                     line |-> "", ttsProvider |-> "openai", key |-> ""]
    /\ voiceRequest = NoVoiceRequest
    /\ dlgResult = "none"
    /\ upc = "idle"
    /\ unitStatus = "idle"

\* the submit request is answered with a non-success HTTP status
\* (imageAI.ts:76-79, :120-123, voiceAI.ts:185-188)
SubmitRejected ==
    /\ jpc = "submit"
    /\ \E response \in ErrorResponses :
          /\ rejection' = response
          /\ outcome' = Err(submitErrorMessage(provider, decodeError(provider, response)))
    /\ submits' = submits + 1
    /\ allSubmits' = allSubmits + 1
    /\ jpc' = afterRejection
    /\ UNCHANGED <<provider, i, pred, polls, delays, slept, fetches, firstSuccessAt,
                   cleanPending, sawFailure, httpFailed, submitTerminal, invocations>>
    /\ UNCHANGED <<streamVars, parseVars, pageVars, requestVars>>

\* callReplicate, imageAI.ts:66-84 and :95-97 when the prediction is already done
SubmitReplicate ==
    /\ jpc = "submit"
    /\ provider = "replicate"
    /\ \E p \in ReplicatePredictions :
          /\ pred' = p
          /\ submitTerminal' = (p.status = "succeeded")
          /\ IF replicateSucceeded(p)
             THEN /\ outcome' = extractReplicateUrl(p)
                  /\ jpc' = "done"
             ELSE /\ outcome' = outcome
                  /\ jpc' = "sleep"
    /\ submits' = submits + 1
    /\ allSubmits' = allSubmits + 1
    /\ UNCHANGED <<provider, i, polls, delays, slept, fetches, firstSuccessAt,
                   cleanPending, sawFailure, httpFailed, rejection, invocations>>
    /\ UNCHANGED <<streamVars, parseVars, pageVars, requestVars>>

\* callFal imageAI.ts:114-126, generateSceneVideo voiceAI.ts:176-195
SubmitFal ==
    /\ jpc = "submit"
    /\ provider \in {"fal", "video"}
    /\ \E requestId \in {"", "req-1"}, payload \in Payloads(provider) :
          /\ pred' = payload
          /\ submitTerminal' = (requestId = "")
          /\ IF falImmediate(requestId)
             THEN /\ outcome' = extractUrl(provider, payload)
                  /\ jpc' = "done"
             ELSE /\ outcome' = outcome
                  /\ jpc' = "sleep"
    /\ submits' = submits + 1
    /\ allSubmits' = allSubmits + 1
    /\ UNCHANGED <<provider, i, polls, delays, slept, fetches, firstSuccessAt,
                   cleanPending, sawFailure, httpFailed, rejection, invocations>>
    /\ UNCHANGED <<streamVars, parseVars, pageVars, requestVars>>

\* callOpenAI, callOpenAITTS, callElevenLabs, callGPT: the one request is answered
\* with a success status (imageAI.ts:161-176, voiceAI.ts:41-62, :69-94, :320-343)
RequestSync ==
    /\ jpc = "submit"
    /\ provider \in SyncProviders
    /\ \E body \in SyncPayloads(provider) :
          /\ pred' = body
          /\ outcome' = syncResult(provider, body)
    /\ submits' = submits + 1
    /\ allSubmits' = allSubmits + 1
    /\ jpc' = "done"
    /\ UNCHANGED <<provider, i, polls, delays, slept, fetches, firstSuccessAt, cleanPending,
                   sawFailure, httpFailed, submitTerminal, rejection, invocations>>
    /\ UNCHANGED <<streamVars, parseVars, pageVars, requestVars>>

\* the caller invokes an adapter again after a call has ended: a new call, which
\* starts from nothing (generateSceneImage / generateSceneVideo / generateVoice
\* keep no state between calls)
Reinvoke ==
    /\ jpc = "done"
    /\ invocations < MaxInvocations
    /\ invocations' = invocations + 1
    /\ provider' \in Providers
    /\ jpc' = "submit"
    /\ i' = 0
    /\ pred' = [status |-> ""]
    /\ outcome' = NoOutcome
    /\ submits' = 0 /\ polls' = 0 /\ delays' = 0 /\ slept' = 0 /\ fetches' = 0
    /\ firstSuccessAt' = 0
    /\ cleanPending' = TRUE
    /\ sawFailure' = FALSE
    /\ httpFailed' = FALSE
    /\ submitTerminal' = FALSE
    /\ rejection' = NoRejection
    /\ UNCHANGED allSubmits
    /\ UNCHANGED <<streamVars, parseVars, pageVars, requestVars>>

\* a response to a status or result request (imageAI.ts:88-89, :130-131, :134-135;
\* voiceAI.ts:201-205, :208-211): ok is Response.ok, which no adapter reads on
\* these requests.  The body of a non-success response is the provider's error
\* document: it has no job status ("") and no asset ("error" from the extraction).
IsResponse(ok, content) == ok \/ content \in {"", "error"}

\* the argument of sleep() in each polling loop (imageAI.ts:87, :129;
\* voiceAI.ts:199), in milliseconds
IMAGE_POLL_INTERVAL == 2000
VIDEO_POLL_INTERVAL == 3000
pollInterval_AlwaysImage(p) == IMAGE_POLL_INTERVAL
pollInterval(p) == IF p = "video" THEN VIDEO_POLL_INTERVAL ELSE IMAGE_POLL_INTERVAL

\* await sleep(2000) / sleep(3000): imageAI.ts:87, :129, voiceAI.ts:199
Sleep ==
    /\ jpc = "sleep"
    /\ delays' = delays + 1
    /\ slept' = slept + pollInterval(provider)
    /\ jpc' = "poll"
    /\ UNCHANGED <<provider, i, pred, outcome, submits, polls, fetches, firstSuccessAt,
                   cleanPending, sawFailure, httpFailed, submitTerminal, rejection, invocations,
                   allSubmits>>
    /\ UNCHANGED <<streamVars, parseVars, pageVars, requestVars>>

\* one status request of callReplicate and what follows it up to the next await
\* (imageAI.ts:88-97): the response's HTTP status is not looked at
PollReplicate ==
    /\ jpc = "poll"
    /\ provider = "replicate"
    /\ \E p \in ReplicatePredictions, ok \in BOOLEAN :
          /\ IsResponse(ok, p.status)
          /\ httpFailed' = (httpFailed \/ ~ok)
          /\ pred' = p
          /\ firstSuccessAt' = IF firstSuccessAt = 0 /\ p.status = "succeeded"
                               THEN polls + 1 ELSE firstSuccessAt
          /\ sawFailure' = (sawFailure \/ p.status = "failed")
          /\ cleanPending' = (cleanPending /\ p.status # "")
          /\ IF replicateSucceeded(p)
             THEN /\ outcome' = extractReplicateUrl(p)
                  /\ jpc' = "done"
                  /\ i' = i
             ELSE IF replicateFailed(p)
             THEN /\ outcome' = Err(failureMessage(provider, p))
                  /\ jpc' = "done"
                  /\ i' = i
             ELSE IF i + 1 < MaxAttempts(provider)
             THEN /\ outcome' = outcome
                  /\ jpc' = "sleep"
                  /\ i' = i + 1
             ELSE /\ outcome' = exhausted(provider, p)
                  /\ jpc' = "done"
                  /\ i' = i + 1
    /\ polls' = polls + 1
    /\ UNCHANGED <<provider, submits, delays, slept, fetches, submitTerminal, rejection,
                   invocations, allSubmits>>
    /\ UNCHANGED <<streamVars, parseVars, pageVars, requestVars>>

\* one status request of callFal / generateSceneVideo (imageAI.ts:130-139,
\* voiceAI.ts:201-218)
PollFal ==
    /\ jpc = "poll"
    /\ provider \in {"fal", "video"}
    /\ \E sd \in FalStatuses, ok \in BOOLEAN :
          /\ IsResponse(ok, sd.status)
          /\ httpFailed' = (httpFailed \/ ~ok)
          /\ pred' = sd
          /\ firstSuccessAt' = IF firstSuccessAt = 0 /\ sd.status = "COMPLETED"
                               THEN polls + 1 ELSE firstSuccessAt
          /\ sawFailure' = (sawFailure \/ sd.status = "FAILED")
          /\ cleanPending' = (cleanPending /\ sd.status # "")
          /\ IF falCompleted(sd)
             THEN /\ outcome' = outcome
                  /\ jpc' = "fetch"
                  /\ i' = i
             ELSE IF falFailed(sd)
             THEN /\ outcome' = Err(failureMessage(provider, sd))
                  /\ jpc' = "done"
                  /\ i' = i
             ELSE IF i + 1 < MaxAttempts(provider)
             THEN /\ outcome' = outcome
                  /\ jpc' = "sleep"
                  /\ i' = i + 1
             ELSE /\ outcome' = exhausted(provider, sd)
                  /\ jpc' = "done"
                  /\ i' = i + 1
    /\ polls' = polls + 1
    /\ UNCHANGED <<provider, submits, delays, slept, fetches, submitTerminal, rejection,
                   invocations, allSubmits>>
    /\ UNCHANGED <<streamVars, parseVars, pageVars, requestVars>>

\* the final-result request after COMPLETED (imageAI.ts:134-136, voiceAI.ts:208-212)
FetchResult ==
    /\ jpc = "fetch"
    /\ \E payload \in Payloads(provider), ok \in BOOLEAN :
          /\ IsResponse(ok, extractUrl(provider, payload).kind)
          /\ httpFailed' = (httpFailed \/ ~ok)
          /\ pred' = payload
          /\ outcome' = extractUrl(provider, payload)
    /\ fetches' = fetches + 1
    /\ jpc' = "done"
    /\ UNCHANGED <<provider, i, submits, polls, delays, slept, firstSuccessAt,
                   cleanPending, sawFailure, submitTerminal, rejection, invocations,
                   allSubmits>>
    /\ UNCHANGED <<streamVars, parseVars, pageVars, requestVars>>

NextJob ==
    \/ SubmitRejected
    \/ SubmitReplicate
    \/ SubmitFal
    \/ RequestSync
    \/ Sleep
    \/ PollReplicate
    \/ PollFal
    \/ FetchResult
    \/ Reinvoke

(***************************************************************************)
(* textAI: callGPTStream (voiceAI.ts:244-309)                              *)
(*                                                                         *)
(* The response body is a sequence of symbols.  "data:" followed by "SP"   *)
(* is the six-character prefix "data: "; "{", c, "}" stands for the JSON   *)
(* text {"choices":[{"delta":{"content":"c"}}]}; "{", "}" for a frame      *)
(* whose delta has no content; "[DONE]" is the terminal sentinel.          *)
(* TextDecoder.decode(value, {stream: true}) only reassembles multi-byte   *)
(* characters, so on symbols it hands the read on unchanged.               *)
(***************************************************************************)
Content == {"x", "y"}
Whitespace == {"SP", "CR", "LF"}
PREFIX == <<"data:", "SP">>

MaxFrames == 3

Frames ==
    { [kind |-> "delta", content |-> c, eol |-> "lf"] : c \in Content }
    \cup { [kind |-> "delta", content |-> "x", eol |-> "crlf"],
           [kind |-> "empty", content |-> "", eol |-> "lf"],
           [kind |-> "done", content |-> "", eol |-> "lf"],
           [kind |-> "malformed", content |-> "x", eol |-> "lf"],
           [kind |-> "comment", content |-> "", eol |-> "lf"] }

\* the bytes of one frame on the wire
Encode(f) ==
    LET eol == IF f.eol = "crlf" THEN <<"CR", "LF", "CR", "LF">> ELSE <<"LF", "LF">>
        body == CASE f.kind = "delta" -> PREFIX \o <<"{", f.content, "}">>
                  [] f.kind = "empty" -> PREFIX \o <<"{", "}">>
                  [] f.kind = "done" -> PREFIX \o <<"[DONE]">>
                  [] f.kind = "malformed" -> PREFIX \o <<"{", f.content>>
                  [] f.kind = "comment" -> <<":">>
    IN body \o eol

RECURSIVE EncodeAll(_)
EncodeAll(fs) == IF fs = <<>> THEN <<>> ELSE Encode(Head(fs)) \o EncodeAll(Tail(fs))

\* the contents of the content deltas of a frame sequence, in order
RECURSIVE Deltas(_)
Deltas(fs) ==
    IF fs = <<>> THEN <<>>
    ELSE (IF Head(fs).kind = "delta" THEN << <<Head(fs).content>> >> ELSE <<>>)
         \o Deltas(Tail(fs))

RECURSIVE Concat(_)
Concat(ss) == IF ss = <<>> THEN <<>> ELSE Head(ss) \o Concat(Tail(ss))

\* chunk.split("\n")  (voiceAI.ts:289)
RECURSIVE Split(_)
Split(s) ==
    IF \A k \in 1..Len(s) : s[k] # "LF" THEN <<s>>
    ELSE LET k == CHOOSE k \in 1..Len(s) : s[k] = "LF" /\ \A j \in 1..(k - 1) : s[j] # "LF"
         IN <<SubSeq(s, 1, k - 1)>> \o Split(SubSeq(s, k + 1, Len(s)))

\* l.startsWith("data: ")  (voiceAI.ts:289)
StartsWithPrefix(l) == Len(l) >= Len(PREFIX) /\ SubSeq(l, 1, Len(PREFIX)) = PREFIX

\* String.prototype.trim  (voiceAI.ts:292)
RECURSIVE TrimLeft(_)
TrimLeft(s) == IF s # <<>> /\ Head(s) \in Whitespace THEN TrimLeft(Tail(s)) ELSE s
RECURSIVE TrimRight(_)
TrimRight(s) ==
    IF s # <<>> /\ s[Len(s)] \in Whitespace THEN TrimRight(SubSeq(s, 1, Len(s) - 1)) ELSE s
Trim(s) == TrimRight(TrimLeft(s))

\* line.slice(6).trim()  (voiceAI.ts:292)
DataOf(l) == Trim(SubSeq(l, Len(PREFIX) + 1, Len(l)))

\* JSON.parse(data) and parsed.choices?.[0]?.delta?.content || ""  (voiceAI.ts:295-296)
JSONParseOk(data) ==
    \/ data = <<"{", "}">>
    \/ Len(data) = 3 /\ data[1] = "{" /\ data[2] \in Content /\ data[3] = "}"
ContentOf(data) == IF Len(data) = 3 THEN <<data[2]>> ELSE <<>>

\* the body of the for loop for one line (voiceAI.ts:292-301): the contents it delivers
LineDelivers(l) ==
    LET data == DataOf(l)
    IN IF data = <<"[DONE]">> THEN <<>>
       ELSE IF JSONParseOk(data) /\ ContentOf(data) # <<>> THEN <<ContentOf(data)>>
       ELSE <<>>

\* one pass of the while loop over one read (voiceAI.ts:288-302): the contents delivered
RECURSIVE LinesDeliver(_)
LinesDeliver(ls) ==
    IF ls = <<>> THEN <<>>
    ELSE (IF StartsWithPrefix(Head(ls)) THEN LineDelivers(Head(ls)) ELSE <<>>)
         \o LinesDeliver(Tail(ls))
Decode(chunk) == LinesDeliver(Split(chunk))

RECURSIVE SeqsUpTo(_, _)
SeqsUpTo(S, n) ==
    IF n = 0 THEN {<<>>}
    ELSE LET shorter == SeqsUpTo(S, n - 1)
         IN shorter \cup { Append(s, x) : s \in shorter, x \in S }

InitStream ==
    /\ spc = "fetch"
    /\ frames \in SeqsUpTo(Frames, MaxFrames)
    /\ net = EncodeAll(frames)
    /\ fullText = <<>>
    /\ chunkCalls = <<>>
    /\ doneCalls = <<>>
    /\ errorCalls = <<>>
    /\ threw = {}
    /\ cause = "none"
    /\ provider = "replicate"
    /\ jpc = "done"
    /\ i = 0
    /\ pred = [status |-> ""]
    /\ outcome = NoOutcome
    /\ submits = 0 /\ polls = 0 /\ delays = 0 /\ slept = 0 /\ fetches = 0
    /\ firstSuccessAt = 0
    /\ cleanPending = TRUE
    /\ sawFailure = FALSE
    /\ httpFailed = FALSE
    /\ submitTerminal = FALSE
    /\ rejection = NoRejection
    /\ invocations = 1
    /\ allSubmits = 0
    /\ ppc = "done"
    /\ rawText = <<>>
    /\ doc = [kind |-> "malformed", parts |-> FALSE, scenesKind |-> "absent", scenes |-> <<>>]
    /\ parsed = [kind |-> "none"]
    /\ reparsed = [kind |-> "none"]
    /\ plan = [loaded |-> FALSE, scenes |-> <<>>, characters |-> <<>>]
    /\ streaming = FALSE
    /\ planError = ""
    /\ imgStatus = [s \in {"s1", "s2"} |-> "idle"]
    /\ imgError = [s \in {"s1", "s2"} |-> ""]
    /\ vidStatus = [s \in {"s1", "s2"} |-> "idle"]
    /\ vidError = [s \in {"s1", "s2"} |-> ""]
    /\ narStatus = [s \in {"s1", "s2"} |-> "idle"]
    /\ dlgStatus = [s \in {"s1", "s2"} |-> "idle"]
    /\ calls = {}
    /\ nextCall = 1
    /\ bulks = <<>>
    /\ lastStart = [kind |-> "none", id |-> "", status |-> "idle", error |-> ""]
    /\ firstDone = [n |-> 0, kind |-> "none", id |-> "", with |-> {}]
    /\ staleCalls = {}
    /\ vpc = "sent"
    /\ videoParams = [model |-> "luma", durationSeconds |-> [given |-> FALSE, seconds |-> 0],
                      aspectRatio |-> "", imageUrl |-> ""]
    /\ videoBody = [duration |-> "", image_url |-> "", aspect_ratio |-> ""]
    /\ ipc = "sent"
    /\ imageParams = [provider |-> "openai", model |-> "gpt-image-1", referenceImageUrl |-> "",
                      outputFormat |-> ""]
    /\ imageBody = [target |-> "", image_url |-> "", image_prompt |-> "", output_format |-> ""]
    /\ cpc = "ended"
    /\ voiceInput = [characters |-> [present |-> TRUE, list |-> <<>>], characterId |-> "",
                     line |-> "", ttsProvider |-> "openai", key |-> ""]
    /\ voiceRequest = NoVoiceRequest
    /\ dlgResult = "none"
    /\ upc = "idle"
    /\ unitStatus = "idle"

\* fetch() rejects: the catch block reports it (voiceAI.ts:254, :306-308)
FetchFails ==
    /\ spc = "fetch"
    /\ errorCalls' = Append(errorCalls, "Failed to fetch")
    /\ cause' = "transport"
    /\ spc' = "done"
    /\ UNCHANGED <<frames, net, fullText, chunkCalls, doneCalls, threw>>
    /\ UNCHANGED <<jobVars, parseVars, pageVars, requestVars>>

\* non-success initial response (voiceAI.ts:272-276); a body that is not JSON
\* gives res.statusText, which may be empty
FetchNotOk ==
    /\ spc = "fetch"
    /\ \E response \in ErrorResponses :
          errorCalls' = Append(errorCalls, submitErrorMessage("gpt", decodeError("gpt", response)))
    /\ cause' = "status"
    /\ spc' = "done"
    /\ UNCHANGED <<frames, net, fullText, chunkCalls, doneCalls, threw>>
    /\ UNCHANGED <<jobVars, parseVars, pageVars, requestVars>>

\* success response without a body (voiceAI.ts:278-279)
FetchNoBody ==
    /\ spc = "fetch"
    /\ errorCalls' = Append(errorCalls, "No response body")
    /\ cause' = "nobody"
    /\ spc' = "done"
    /\ UNCHANGED <<frames, net, fullText, chunkCalls, doneCalls, threw>>
    /\ UNCHANGED <<jobVars, parseVars, pageVars, requestVars>>

\* success response with a body (voiceAI.ts:278-282)
FetchOk ==
    /\ spc = "fetch"
    /\ spc' = "read"
    /\ UNCHANGED <<frames, net, fullText, chunkCalls, doneCalls, errorCalls, threw, cause>>
    /\ UNCHANGED <<jobVars, parseVars, pageVars, requestVars>>

\* reader.read() returns the next n bytes, and the loop body runs on them
\* (voiceAI.ts:285-302).  An onChunk that throws is caught by the inner catch
\* after fullText was extended (voiceAI.ts:298-301).
Read ==
    /\ spc = "read"
    /\ net # <<>>
    /\ \E n \in 1..Len(net), chunkThrows \in BOOLEAN :
          LET delivered == Decode(SubSeq(net, 1, n))
          IN /\ net' = SubSeq(net, n + 1, Len(net))
             /\ fullText' = fullText \o Concat(delivered)
             /\ chunkCalls' = chunkCalls \o delivered
             /\ threw' = IF chunkThrows /\ delivered # <<>>
                         THEN threw \cup {"onChunk"} ELSE threw
    /\ UNCHANGED <<spc, frames, doneCalls, errorCalls, cause>>
    /\ UNCHANGED <<jobVars, parseVars, pageVars, requestVars>>

\* reader.read() reports done: onDone(fullText) inside the try block
\* (voiceAI.ts:286, :305-308)
ReadDone ==
    /\ spc = "read"
    /\ net = <<>>
    /\ doneCalls' = Append(doneCalls, fullText)
    /\ \E doneThrows \in BOOLEAN :
          IF doneThrows
          THEN /\ threw' = threw \cup {"onDone"}
               /\ errorCalls' = Append(errorCalls, "callback error")
          ELSE UNCHANGED <<threw, errorCalls>>
    /\ spc' = "done"
    /\ UNCHANGED <<frames, net, fullText, chunkCalls, cause>>
    /\ UNCHANGED <<jobVars, parseVars, pageVars, requestVars>>

\* reader.read() rejects (voiceAI.ts:285, :306-308)
ReadFails ==
    /\ spc = "read"
    /\ errorCalls' = Append(errorCalls, "network error")
    /\ cause' = "transport"
    /\ spc' = "done"
    /\ UNCHANGED <<frames, net, fullText, chunkCalls, doneCalls, threw>>
    /\ UNCHANGED <<jobVars, parseVars, pageVars, requestVars>>

NextStream ==
    \/ FetchFails
    \/ FetchNotOk
    \/ FetchNoBody
    \/ FetchOk
    \/ Read
    \/ ReadDone
    \/ ReadFails

(***************************************************************************)
(* textAI: parseContentPlan (voiceAI.ts:349-375)                           *)
(*                                                                         *)
(* The raw text is a sequence of symbols: "F" is a run of three backticks, *)
(* "json" the label after it, "LF" and "SP" white space, "x" any other     *)
(* text and "D" the text of one JSON document, whose decoded value is doc. *)
(* A field that is absent, null or undefined is written "" (a string       *)
(* field) or [t |-> "absent"] (the order field).                           *)
(***************************************************************************)
MaxScenes == 2

ParseWhitespace == {"SP", "LF"}

\* a decoded JSON value in the place of a scene's order: its typeof, its value and
\* whether it is finite.  JSON.parse decodes a number literal beyond the double
\* range (1e999) to Infinity; v is not meaningful then.
Absent == [t |-> "absent", v |-> 0, finite |-> TRUE]
Null == [t |-> "null", v |-> 0, finite |-> TRUE]
Num(n) == [t |-> "number", v |-> n, finite |-> TRUE]
Overflow == [t |-> "number", v |-> 0, finite |-> FALSE]
\* what a model may write as a scene's order: nothing, a string, a number
OrderFields == {Absent, [t |-> "string", v |-> 2, finite |-> TRUE], Num(1), Num(2), Num(7), Overflow}

\* the generated-asset fields a raw scene may already carry
RawAssets ==
    { [generatedImageUrl |-> a[1], generatedVideoUrl |-> a[2], generatedNarrationUrl |-> a[3]] :
        a \in { <<"", "", "">>, <<"old", "", "">>, <<"", "old", "old">>, <<"old", "old", "old">> } }

RawScenes ==
    { [title |-> "t", order |-> o, generatedImageUrl |-> a.generatedImageUrl,
       generatedVideoUrl |-> a.generatedVideoUrl,
       generatedNarrationUrl |-> a.generatedNarrationUrl] : o \in OrderFields, a \in RawAssets }

\* decoded documents: text that is no JSON, null, a scalar, an object whose scenes
\* member is absent, not an array, or an array of scenes.  parts: the object has
\* the members project, characters, scenario, globalConstraints and
\* productionNotes of a ContentPlan (types.ts:27-43); {} has none of them.
Docs ==
    { [kind |-> k, parts |-> FALSE, scenesKind |-> "absent", scenes |-> <<>>] :
        k \in {"malformed", "null", "scalar"} }
    \cup { [kind |-> "object", parts |-> pt, scenesKind |-> sk, scenes |-> <<>>] :
             pt \in BOOLEAN, sk \in {"absent", "other"} }
    \cup { [kind |-> "object", parts |-> pt, scenesKind |-> "array", scenes |-> sc] :
             pt \in BOOLEAN, sc \in SeqsUpTo(RawScenes, MaxScenes) }

RawTexts ==
    { <<"D">>,
      <<"SP", "D", "LF">>,
      <<"F", "json", "LF", "D", "LF", "F">>,
      <<"F", "LF", "D", "LF", "F", "LF">>,
      <<"F", "json", "SP", "D", "F">>,
      <<"x", "LF", "F", "json", "LF", "D", "LF", "F">> }

LineStart(s, k) == k = 1 \/ s[k - 1] = "LF"

\* length of the white-space run of s that starts at position k
RECURSIVE WsRun(_, _)
WsRun(s, k) == IF k <= Len(s) /\ s[k] \in ParseWhitespace THEN 1 + WsRun(s, k + 1) ELSE 0

\* s without the positions from..to
Cut(s, from, to) == SubSeq(s, 1, from - 1) \o SubSeq(s, to + 1, Len(s))

\* .replace(/^```json\s*/im, "")  (voiceAI.ts:352): the first match only
stripJsonFence(s) ==
    LET hits == { k \in 1..(Len(s) - 1) : LineStart(s, k) /\ s[k] = "F" /\ s[k + 1] = "json" }
    IN IF hits = {} THEN s
       ELSE LET k == CHOOSE k \in hits : \A j \in hits : k <= j
            IN Cut(s, k, k + 1 + WsRun(s, k + 2))

\* .replace(/^```\s*/im, "")  (voiceAI.ts:353)
stripOpenFence(s) ==
    LET hits == { k \in 1..Len(s) : LineStart(s, k) /\ s[k] = "F" }
    IN IF hits = {} THEN s
       ELSE LET k == CHOOSE k \in hits : \A j \in hits : k <= j
            IN Cut(s, k, k + WsRun(s, k + 1))

\* the ends e of a match of ```\s*$ that starts at k: the white space k+1..e is
\* followed by a line end
FenceEnds(s, k) ==
    { e \in k..(k + WsRun(s, k + 1)) : e = Len(s) \/ s[e + 1] = "LF" }

\* .replace(/```\s*$/im, "")  (voiceAI.ts:354): leftmost match, greedy
stripCloseFence(s) ==
    LET hits == { k \in 1..Len(s) : s[k] = "F" /\ FenceEnds(s, k) # {} }
    IN IF hits = {} THEN s
       ELSE LET k == CHOOSE k \in hits : \A j \in hits : k <= j
                e == CHOOSE e \in FenceEnds(s, k) : \A f \in FenceEnds(s, k) : f <= e
            IN Cut(s, k, e)

RECURSIVE ParseTrimLeft(_)
ParseTrimLeft(s) == IF s # <<>> /\ Head(s) \in ParseWhitespace THEN ParseTrimLeft(Tail(s)) ELSE s
RECURSIVE ParseTrimRight(_)
ParseTrimRight(s) ==
    IF s # <<>> /\ s[Len(s)] \in ParseWhitespace
    THEN ParseTrimRight(SubSeq(s, 1, Len(s) - 1)) ELSE s

\* voiceAI.ts:351-355
cleanedOf(raw) == ParseTrimRight(ParseTrimLeft(stripCloseFence(stripOpenFence(stripJsonFence(raw)))))

\* JSON.parse(cleaned) succeeds  (voiceAI.ts:358)
jsonParses(cleaned, d) == cleaned = <<"D">> /\ d.kind # "malformed"

\* order: typeof s.order === "number" ? s.order : i + 1  (voiceAI.ts:364)
orderOf_AlwaysPosition(s, idx) == Num(idx)
orderOf_Shifted(s, idx) ==
    IF s.order.t = "number" /\ s.order.finite THEN Num(s.order.v + 1)
    ELSE IF s.order.t = "number" THEN s.order ELSE Num(idx)
orderOf_KeepsAnyOrder(s, idx) == IF s.order.t # "absent" THEN s.order ELSE Num(idx)
orderOf(s, idx) == IF s.order.t = "number" THEN s.order ELSE Num(idx)

\* generatedImageUrl / generatedVideoUrl / generatedNarrationUrl: undefined
\* (voiceAI.ts:365-367)
clearedAsset_KeepsRaw(old) == old
clearedAsset(old) == ""

\* the callback of parsed.scenes.map; idx is the 1-based position, i + 1
\* (voiceAI.ts:362-368)
mapScene(s, idx) ==
    [s EXCEPT !.order = orderOf(s, idx),
              !.generatedImageUrl = clearedAsset(s.generatedImageUrl),
              !.generatedVideoUrl = clearedAsset(s.generatedVideoUrl),
              !.generatedNarrationUrl = clearedAsset(s.generatedNarrationUrl)]

\* the message of voiceAI.ts:373 (Korean in the source), in English
PARSE_ERROR == "AI response is not JSON, try again"

\* voiceAI.ts:349-375.  Reading .scenes of null throws inside the try block.
parseContentPlan(raw, d) ==
    IF ~jsonParses(cleanedOf(raw), d) \/ d.kind = "null"
    THEN [kind |-> "error", message |-> PARSE_ERROR]
    ELSE IF d.kind = "object" /\ d.scenesKind = "array"
    THEN [kind |-> "plan",
          value |-> [d EXCEPT !.scenes = [k \in 1..Len(d.scenes) |-> mapScene(d.scenes[k], k)]]]
    ELSE [kind |-> "plan", value |-> d]

\* JSON.stringify of a number: a non-finite number is written as null
stringifyOrder(o) == IF o.t = "number" /\ ~o.finite THEN Null ELSE o

\* JSON.stringify of a scene: a member whose value is undefined is left out, so
\* reading it from the decoded text gives undefined again ("" here); every other
\* member is written as it is
stringifyScene(s) == [s EXCEPT !.order = stringifyOrder(s.order)]

\* the document that the text JSON.stringify(plan, null, 2) decodes to
\* (page.tsx:1225)
stringify(value) ==
    IF value.scenesKind = "array"
    THEN [value EXCEPT !.scenes = [k \in 1..Len(value.scenes) |-> stringifyScene(value.scenes[k])]]
    ELSE value

\* the text JSON.stringify(plan, null, 2) writes: one JSON document; it starts
\* with the document's first character and each further line with indentation or
\* a closing bracket, and a string member cannot hold a raw line break
serializedText(value) == <<"D">>

InitParse ==
    /\ ppc = "call"
    /\ rawText \in RawTexts
    /\ doc \in Docs
    /\ parsed = [kind |-> "none"]
    /\ reparsed = [kind |-> "none"]
    /\ plan = [loaded |-> FALSE, scenes |-> <<>>, characters |-> <<>>]
    /\ streaming = FALSE
    /\ planError = ""
    /\ imgStatus = [s \in {"s1", "s2"} |-> "idle"]
    /\ imgError = [s \in {"s1", "s2"} |-> ""]
    /\ vidStatus = [s \in {"s1", "s2"} |-> "idle"]
    /\ vidError = [s \in {"s1", "s2"} |-> ""]
    /\ narStatus = [s \in {"s1", "s2"} |-> "idle"]
    /\ dlgStatus = [s \in {"s1", "s2"} |-> "idle"]
    /\ calls = {}
    /\ nextCall = 1
    /\ bulks = <<>>
    /\ lastStart = [kind |-> "none", id |-> "", status |-> "idle", error |-> ""]
    /\ firstDone = [n |-> 0, kind |-> "none", id |-> "", with |-> {}]
    /\ staleCalls = {}
    /\ vpc = "sent"
    /\ videoParams = [model |-> "luma", durationSeconds |-> [given |-> FALSE, seconds |-> 0],
                      aspectRatio |-> "", imageUrl |-> ""]
    /\ videoBody = [duration |-> "", image_url |-> "", aspect_ratio |-> ""]
    /\ ipc = "sent"
    /\ imageParams = [provider |-> "openai", model |-> "gpt-image-1", referenceImageUrl |-> "",
                      outputFormat |-> ""]
    /\ imageBody = [target |-> "", image_url |-> "", image_prompt |-> "", output_format |-> ""]
    /\ cpc = "ended"
    /\ voiceInput = [characters |-> [present |-> TRUE, list |-> <<>>], characterId |-> "",
                     line |-> "", ttsProvider |-> "openai", key |-> ""]
    /\ voiceRequest = NoVoiceRequest
    /\ dlgResult = "none"
    /\ upc = "idle"
    /\ unitStatus = "idle"
    /\ provider = "replicate"
    /\ jpc = "done"
    /\ i = 0
    /\ pred = [status |-> ""]
    /\ outcome = NoOutcome
    /\ submits = 0 /\ polls = 0 /\ delays = 0 /\ slept = 0 /\ fetches = 0
    /\ firstSuccessAt = 0
    /\ cleanPending = TRUE
    /\ sawFailure = FALSE
    /\ httpFailed = FALSE
    /\ submitTerminal = FALSE
    /\ rejection = NoRejection
    /\ invocations = 1
    /\ allSubmits = 0
    /\ spc = "done"
    /\ frames = <<>>
    /\ net = <<>>
    /\ fullText = <<>>
    /\ chunkCalls = <<>>
    /\ doneCalls = <<>>
    /\ errorCalls = <<>>
    /\ threw = {}
    /\ cause = "none"

Parse ==
    /\ ppc = "call"
    /\ parsed' = parseContentPlan(rawText, doc)
    /\ ppc' = "done"
    /\ UNCHANGED <<rawText, doc, reparsed>>
    /\ UNCHANGED <<jobVars, streamVars, pageVars, requestVars>>

\* parseContentPlan applied to the serialization of the plan it returned
Reparse ==
    /\ ppc = "done"
    /\ parsed.kind = "plan"
    /\ reparsed' = parseContentPlan(serializedText(parsed.value), stringify(parsed.value))
    /\ ppc' = "reparsed"
    /\ UNCHANGED <<rawText, doc, parsed>>
    /\ UNCHANGED <<jobVars, streamVars, pageVars, requestVars>>

NextParse == Parse \/ Reparse

(***************************************************************************)
(* page.tsx: the generation handlers and the per-unit status maps          *)
(*                                                                         *)
(* A provider call in flight is a record of calls; n numbers the calls in  *)
(* the order they were started.  The adapter behind a call is the one of   *)
(* the sections above; here it only resolves with an asset URL or rejects  *)
(* with a message.  A status map without an entry for a unit reads "idle"  *)
(* (imgStatus[scene.id] ?? "idle").  Every scene has one dialogue line, so *)
(* the key `${scene.id}_${dlgIdx}` of dlgStatus is written as the scene id.*)
(* The React state updates of one handler run to the next await are one    *)
(* step: nothing else runs between them.                                   *)
(***************************************************************************)
MaxCalls == 3
MaxBulks == 1

SceneIds == {"s1", "s2"}
Keys == {"", "key"}

NoPlan == [loaded |-> FALSE, scenes |-> <<>>, characters |-> <<>>]

\* a scene as parseContentPlan returns it: no generated asset
FreshScene(id, narration, line) ==
    [id |-> id, narration |-> narration, line |-> line, generatedImageUrl |-> "",
     generatedVideoUrl |-> "", generatedNarrationUrl |-> "", audioUrl |-> ""]

\* the characters of a plan, each with its voice casting (types.ts:45-61)
Cast ==
    <<[id |-> "c1", voice |-> [suggestedTTSVoice |-> "nova", elevenLabsVoiceId |-> "el-1"]],
      [id |-> "c2", voice |-> [suggestedTTSVoice |-> "onyx", elevenLabsVoiceId |-> ""]]>>

\* the plan a planning request produces: two characters and two scenes, the
\* second scene with blank narration and a blank spoken line
FreshPlans ==
    { [loaded |-> TRUE,
       scenes |-> <<FreshScene("s1", "narration", "line"), FreshScene("s2", "", "")>>,
       characters |-> Cast] }

\* what a provider call started as call n resolves or rejects with
UrlOf(n) == "url-" \o ToString(n)
MessageOf(n) == "error-" \o ToString(n)

HasScene(p, id) == \E k \in 1..Len(p.scenes) : p.scenes[k].id = id
SceneOf(p, id) == p.scenes[CHOOSE k \in 1..Len(p.scenes) : p.scenes[k].id = id]

\* setPlanScenes(scenes => scenes.map(s => s.id === id ? {...s, [field]: url} : s))
\* (page.tsx:151-153, :228-230, :267-269, :298-300, :321-327)
setPlanScenes(p, id, field, url) ==
    IF p.loaded
    THEN [p EXCEPT !.scenes = [k \in 1..Len(p.scenes) |->
                                  IF p.scenes[k].id = id
                                  THEN [p.scenes[k] EXCEPT ![field] = url]
                                  ELSE p.scenes[k]]]
    ELSE p

\* the member of a scene that each kind of unit writes
AssetField(kind) ==
    CASE kind = "image" -> "generatedImageUrl"
      [] kind = "video" -> "generatedVideoUrl"
      [] kind = "narration" -> "generatedNarrationUrl"
      [] kind = "dialogue" -> "audioUrl"

Call(n, kind, id, op, imageUrl) ==
    [n |-> n, kind |-> kind, id |-> id, op |-> op, imageUrl |-> imageUrl]

\* setImgStatus(s => ({ ...s, [scene.id]: status })) and its likes for the other
\* maps (page.tsx:215, :231, :234)
setStatus_WithoutSpread(map, id, status) ==
    [u \in DOMAIN map |-> IF u = id THEN status ELSE "idle"]
setStatus(map, id, status) == [map EXCEPT ![id] = status]

\* setImgError(e => ({ ...e, [scene.id]: "" })) / setVidError(...): the message a
\* unit has after its generation started (page.tsx:216, :257)
clearedError_KeepsPrevious(previous) == previous
clearedError(previous) == ""

\* what firstDone records.  A call that resolves while calls for other units are
\* in flight is recorded with the numbers of those calls; the record is dropped
\* when another call for its unit settles or starts, and when none of those
\* calls is in flight any more.
NoneDone == [n |-> 0, kind |-> "none", id |-> "", with |-> {}]
OtherUnits(c) == {d \in calls : d.kind # c.kind \/ d.id # c.id}
forget(done, kind, id) == IF done.kind = kind /\ done.id = id THEN NoneDone ELSE done
afterSettle(c, ok) ==
    LET done == IF ok /\ OtherUnits(c) # {}
                THEN [n |-> c.n, kind |-> c.kind, id |-> c.id,
                      with |-> {d.n : d \in OtherUnits(c)}]
                ELSE forget(firstDone, c.kind, c.id)
        inFlight == done.with \cap {d.n : d \in calls \ {c}}
    IN IF inFlight = {} THEN NoneDone ELSE [done EXCEPT !.with = inFlight]

\* what lastStart records when generation of a unit starts
StartOf(kind, id, status, error) == [kind |-> kind, id |-> id, status |-> status, error |-> error]

\* the bulk operation that call c belongs to has scenes left after c's scene
BulkHasNext(c) == c.op > 0 /\ bulks[c.op].pos < Len(bulks[c.op].scenes)
\* for (const scene of plan.scenes): the scene the loop takes next (page.tsx:241)
nextInLoop_Last(b) == b.scenes[Len(b.scenes)]
nextInLoop(b) == b.scenes[b.pos + 1]

InitPage ==
    /\ plan = NoPlan
    /\ streaming = FALSE
    /\ planError = ""
    /\ imgStatus = [s \in SceneIds |-> "idle"]
    /\ imgError = [s \in SceneIds |-> ""]
    /\ vidStatus = [s \in SceneIds |-> "idle"]
    /\ vidError = [s \in SceneIds |-> ""]
    /\ narStatus = [s \in SceneIds |-> "idle"]
    /\ dlgStatus = [s \in SceneIds |-> "idle"]
    /\ calls = {}
    /\ nextCall = 1
    /\ bulks = <<>>
    /\ lastStart = [kind |-> "none", id |-> "", status |-> "idle", error |-> ""]
    /\ firstDone = [n |-> 0, kind |-> "none", id |-> "", with |-> {}]
    /\ staleCalls = {}
    /\ vpc = "sent"
    /\ videoParams = [model |-> "luma", durationSeconds |-> [given |-> FALSE, seconds |-> 0],
                      aspectRatio |-> "", imageUrl |-> ""]
    /\ videoBody = [duration |-> "", image_url |-> "", aspect_ratio |-> ""]
    /\ ipc = "sent"
    /\ imageParams = [provider |-> "openai", model |-> "gpt-image-1", referenceImageUrl |-> "",
                      outputFormat |-> ""]
    /\ imageBody = [target |-> "", image_url |-> "", image_prompt |-> "", output_format |-> ""]
    /\ cpc = "ended"
    /\ voiceInput = [characters |-> [present |-> TRUE, list |-> <<>>], characterId |-> "",
                     line |-> "", ttsProvider |-> "openai", key |-> ""]
    /\ voiceRequest = NoVoiceRequest
    /\ dlgResult = "none"
    /\ upc = "idle"
    /\ unitStatus = "idle"
    /\ provider = "replicate"
    /\ jpc = "done"
    /\ i = 0
    /\ pred = [status |-> ""]
    /\ outcome = NoOutcome
    /\ submits = 0 /\ polls = 0 /\ delays = 0 /\ slept = 0 /\ fetches = 0
    /\ firstSuccessAt = 0
    /\ cleanPending = TRUE
    /\ sawFailure = FALSE
    /\ httpFailed = FALSE
    /\ submitTerminal = FALSE
    /\ rejection = NoRejection
    /\ invocations = 1
    /\ allSubmits = 0
    /\ spc = "done"
    /\ frames = <<>>
    /\ net = <<>>
    /\ fullText = <<>>
    /\ chunkCalls = <<>>
    /\ doneCalls = <<>>
    /\ errorCalls = <<>>
    /\ threw = {}
    /\ cause = "none"
    /\ ppc = "done"
    /\ rawText = <<>>
    /\ doc = [kind |-> "malformed", parts |-> FALSE, scenesKind |-> "absent", scenes |-> <<>>]
    /\ parsed = [kind |-> "none"]
    /\ reparsed = [kind |-> "none"]

\* the message of a failed input validation (page.tsx:164-165): the API key or
\* the project idea is missing
INPUT_ERROR == "input required"
\* the messages callGPTStream gives to onError (voiceAI.ts:273, :278, :307)
StreamErrorMessages == {"GPT API error 401", "No response body"}

\* what the text given to onDone decodes to: a plan with scenes, text that
\* JSON.parse rejects, null, or one of the falsy values 0, false and ""
PlanTexts == {"plan", "malformed", "null", "falsy"}

\* handleGenerate up to its await (page.tsx:163-170); the button is disabled
\* while streaming (page.tsx:566)
HandleGenerate ==
    /\ ~streaming
    /\ \E valid \in BOOLEAN :
          IF valid
          THEN /\ streaming' = TRUE
               /\ planError' = ""
               /\ plan' = NoPlan
               /\ staleCalls' = {c.n : c \in calls}
          ELSE /\ planError' = INPUT_ERROR
               /\ UNCHANGED <<streaming, plan, staleCalls>>
    /\ UNCHANGED <<imgStatus, imgError, vidStatus, vidError, narStatus, dlgStatus,
                   calls, nextCall, bulks, lastStart, firstDone>>
    /\ UNCHANGED <<jobVars, streamVars, parseVars, requestVars>>

\* the onDone callback of handleGenerate (page.tsx:179-188) with parseContentPlan
\* (voiceAI.ts:349-375), which throws for text that is no JSON and for null and
\* returns every other decoded value; setPlan of a falsy value leaves the page
\* without plan
onDone(text) ==
    CASE text \in {"malformed", "null"} -> [plans |-> {plan}, error |-> PARSE_ERROR]
      [] text = "falsy" -> [plans |-> {NoPlan}, error |-> planError]
      [] text = "plan" -> [plans |-> FreshPlans, error |-> planError]

\* callGPTStream ends: it calls onDone with the text or onError with a message
\* (voiceAI.ts:271-308; page.tsx:179-189)
PlanStreamEnds ==
    /\ streaming
    /\ \/ \E text \in PlanTexts :
             /\ plan' \in onDone(text).plans
             /\ planError' = onDone(text).error
       \/ \E err \in StreamErrorMessages :
             /\ planError' = err
             /\ plan' = plan
    /\ streaming' = FALSE
    /\ UNCHANGED <<imgStatus, imgError, vidStatus, vidError, narStatus, dlgStatus,
                   calls, nextCall, bulks, lastStart, firstDone>>
    /\ UNCHANGED <<staleCalls, jobVars, streamVars, parseVars, requestVars>>

\* generateImage up to its await (page.tsx:210-226), called from the scene's
\* button, which is disabled while the unit is running (page.tsx:866-867)
GenerateImage(s) ==
    /\ plan.loaded /\ HasScene(plan, s)
    /\ imgStatus[s] # "running"
    /\ nextCall <= MaxCalls
    /\ \E key \in Keys :
          IF key = ""
          THEN UNCHANGED <<imgStatus, imgError, calls, nextCall, lastStart, firstDone>>
          ELSE /\ imgStatus' = setStatus(imgStatus, s, "running")
               /\ imgError' = [imgError EXCEPT ![s] = clearedError(@)]
               /\ calls' = calls \cup {Call(nextCall, "image", s, 0, "")}
               /\ nextCall' = nextCall + 1
               /\ lastStart' = StartOf("image", s, imgStatus[s], imgError[s])
               /\ firstDone' = forget(firstDone, "image", s)
    /\ UNCHANGED <<plan, streaming, planError, vidStatus, vidError, narStatus, dlgStatus, bulks>>
    /\ UNCHANGED <<staleCalls, jobVars, streamVars, parseVars, requestVars>>

\* generateAllImages up to the first await (page.tsx:239-244, :210-226).  Its
\* button has no disabled condition (page.tsx:795).  The loop runs over the
\* scenes of the plan it was called with, and every generateImage it calls reads
\* the API key of that same render.
GenerateAllImages ==
    /\ plan.loaded
    /\ Len(bulks) < MaxBulks
    /\ nextCall <= MaxCalls
    /\ \E key \in Keys :
          IF key = "" \/ plan.scenes = <<>>
          THEN UNCHANGED <<imgStatus, imgError, calls, nextCall, bulks, lastStart, firstDone>>
          ELSE LET b == [scenes |-> [k \in 1..Len(plan.scenes) |-> plan.scenes[k].id],
                         pos |-> 0, started |-> <<>>]
                   first == nextInLoop(b)
               IN /\ imgStatus' = setStatus(imgStatus, first, "running")
                  /\ imgError' = [imgError EXCEPT ![first] = clearedError(@)]
                  /\ calls' = calls \cup {Call(nextCall, "image", first, Len(bulks) + 1, "")}
                  /\ nextCall' = nextCall + 1
                  /\ bulks' = Append(bulks, [b EXCEPT !.pos = 1, !.started = <<first>>])
                  /\ lastStart' = StartOf("image", first, imgStatus[first], imgError[first])
                  /\ firstDone' = forget(firstDone, "image", first)
    /\ UNCHANGED <<plan, streaming, planError, vidStatus, vidError, narStatus, dlgStatus>>
    /\ UNCHANGED <<staleCalls, jobVars, streamVars, parseVars, requestVars>>

\* generateSceneImage returns or throws: the rest of generateImage
\* (page.tsx:227-236) and, when generateAllImages awaited it, the next turn of
\* its loop up to the next await (page.tsx:241-243, :210-226)
ImageSettles ==
    \E c \in calls :
    /\ c.kind = "image"
    /\ \E ok \in BOOLEAN :
          LET status1 == setStatus(imgStatus, c.id, IF ok THEN "completed" ELSE "failed")
              error1 == IF ok THEN imgError ELSE [imgError EXCEPT ![c.id] = MessageOf(c.n)]
          IN /\ plan' = IF ok THEN setPlanScenes(plan, c.id, "generatedImageUrl", UrlOf(c.n))
                        ELSE plan
             /\ IF BulkHasNext(c)
                THEN LET next == nextInLoop(bulks[c.op])
                     IN /\ imgStatus' = setStatus(status1, next, "running")
                        /\ imgError' = [error1 EXCEPT ![next] = clearedError(@)]
                        /\ calls' = (calls \ {c}) \cup {Call(nextCall, "image", next, c.op, "")}
                        /\ nextCall' = nextCall + 1
                        /\ bulks' = [bulks EXCEPT ![c.op].pos = @ + 1,
                                                  ![c.op].started = Append(@, next)]
                        /\ lastStart' = StartOf("image", next, status1[next], error1[next])
                        /\ firstDone' = forget(afterSettle(c, ok), "image", next)
                ELSE /\ imgStatus' = status1
                     /\ imgError' = error1
                     /\ calls' = calls \ {c}
                     /\ firstDone' = afterSettle(c, ok)
                     /\ UNCHANGED <<nextCall, bulks, lastStart>>
    /\ UNCHANGED <<streaming, planError, vidStatus, vidError, narStatus, dlgStatus>>
    /\ staleCalls' = staleCalls \ {c.n}
    /\ UNCHANGED <<jobVars, streamVars, parseVars, requestVars>>

\* the provider calls that generateVideo(scene) makes (page.tsx:250-266): none
\* without a FAL key, none for a scene without generated image
videoRequest_NoImageCheck(scene, key) ==
    IF key = "" THEN {}
    ELSE {Call(nextCall, "video", scene.id, 0, scene.generatedImageUrl)}
videoRequest(scene, key) ==
    IF key = "" \/ scene.generatedImageUrl = "" THEN {}
    ELSE {Call(nextCall, "video", scene.id, 0, scene.generatedImageUrl)}

\* generateVideo up to its await (page.tsx:249-266), called from the scene's
\* button, which is disabled while the unit is running and while the scene has no
\* image (page.tsx:988-989)
GenerateVideo(s) ==
    /\ plan.loaded /\ HasScene(plan, s)
    /\ vidStatus[s] # "running"
    /\ SceneOf(plan, s).generatedImageUrl # ""
    /\ nextCall <= MaxCalls
    /\ \E key \in Keys :
          LET request == videoRequest(SceneOf(plan, s), key)
          IN IF request = {}
             THEN UNCHANGED <<vidStatus, vidError, calls, nextCall, lastStart, firstDone>>
             ELSE /\ vidStatus' = setStatus(vidStatus, s, "running")
                  /\ vidError' = [vidError EXCEPT ![s] = clearedError(@)]
                  /\ calls' = calls \cup request
                  /\ nextCall' = nextCall + 1
                  /\ lastStart' = StartOf("video", s, vidStatus[s], vidError[s])
                  /\ firstDone' = forget(firstDone, "video", s)
    /\ UNCHANGED <<plan, streaming, planError, imgStatus, imgError, narStatus, dlgStatus, bulks>>
    /\ UNCHANGED <<staleCalls, jobVars, streamVars, parseVars, requestVars>>

\* generateSceneVideo returns or throws (page.tsx:267-275)
VideoSettles ==
    \E c \in calls :
    /\ c.kind = "video"
    /\ \E ok \in BOOLEAN :
          /\ firstDone' = afterSettle(c, ok)
          /\ IF ok
             THEN /\ plan' = setPlanScenes(plan, c.id, "generatedVideoUrl", UrlOf(c.n))
                  /\ vidStatus' = setStatus(vidStatus, c.id, "completed")
                  /\ vidError' = vidError
             ELSE /\ plan' = plan
                  /\ vidStatus' = setStatus(vidStatus, c.id, "failed")
                  /\ vidError' = [vidError EXCEPT ![c.id] = MessageOf(c.n)]
    /\ calls' = calls \ {c}
    /\ UNCHANGED <<streaming, planError, imgStatus, imgError, narStatus, dlgStatus, nextCall, bulks,
                   lastStart>>
    /\ staleCalls' = staleCalls \ {c.n}
    /\ UNCHANGED <<jobVars, streamVars, parseVars, requestVars>>

\* generateNarration up to its await (page.tsx:286-297), called from the scene's
\* button, which is disabled while the unit is running (page.tsx:1077-1078)
GenerateNarration(s) ==
    /\ plan.loaded /\ HasScene(plan, s)
    /\ narStatus[s] # "running"
    /\ nextCall <= MaxCalls
    /\ \E key \in Keys :
          IF SceneOf(plan, s).narration = "" \/ key = ""
          THEN UNCHANGED <<narStatus, calls, nextCall, lastStart, firstDone>>
          ELSE /\ narStatus' = setStatus(narStatus, s, "running")
               /\ calls' = calls \cup {Call(nextCall, "narration", s, 0, "")}
               /\ nextCall' = nextCall + 1
               /\ lastStart' = StartOf("narration", s, narStatus[s], "")
               /\ firstDone' = forget(firstDone, "narration", s)
    /\ UNCHANGED <<plan, streaming, planError, imgStatus, imgError, vidStatus, vidError, dlgStatus, bulks>>
    /\ UNCHANGED <<staleCalls, jobVars, streamVars, parseVars, requestVars>>

\* generateVoice returns or throws (page.tsx:298-306): the catch block stores no
\* message
NarrationSettles ==
    \E c \in calls :
    /\ c.kind = "narration"
    /\ \E ok \in BOOLEAN :
          /\ firstDone' = afterSettle(c, ok)
          /\ IF ok
             THEN /\ plan' = setPlanScenes(plan, c.id, "generatedNarrationUrl", UrlOf(c.n))
                  /\ narStatus' = setStatus(narStatus, c.id, "completed")
             ELSE /\ plan' = plan
                  /\ narStatus' = setStatus(narStatus, c.id, "failed")
    /\ calls' = calls \ {c}
    /\ UNCHANGED <<streaming, planError, imgStatus, imgError, vidStatus, vidError, dlgStatus,
                   nextCall, bulks, lastStart>>
    /\ staleCalls' = staleCalls \ {c.n}
    /\ UNCHANGED <<jobVars, streamVars, parseVars, requestVars>>

\* generateDialogue up to its await (page.tsx:309-320), called from the line's
\* button, which is disabled while the unit is running (page.tsx:1105-1106)
GenerateDialogue(s) ==
    /\ plan.loaded /\ HasScene(plan, s)
    /\ dlgStatus[s] # "running"
    /\ nextCall <= MaxCalls
    /\ \E key \in Keys :
          IF SceneOf(plan, s).line = "" \/ key = ""
          THEN UNCHANGED <<dlgStatus, calls, nextCall, lastStart, firstDone>>
          ELSE /\ dlgStatus' = setStatus(dlgStatus, s, "running")
               /\ calls' = calls \cup {Call(nextCall, "dialogue", s, 0, "")}
               /\ nextCall' = nextCall + 1
               /\ lastStart' = StartOf("dialogue", s, dlgStatus[s], "")
               /\ firstDone' = forget(firstDone, "dialogue", s)
    /\ UNCHANGED <<plan, streaming, planError, imgStatus, imgError, vidStatus, vidError, narStatus, bulks>>
    /\ UNCHANGED <<staleCalls, jobVars, streamVars, parseVars, requestVars>>

\* generateVoice returns or throws (page.tsx:321-335): the catch block stores no
\* message
DialogueSettles ==
    \E c \in calls :
    /\ c.kind = "dialogue"
    /\ \E ok \in BOOLEAN :
          /\ firstDone' = afterSettle(c, ok)
          /\ IF ok
             THEN /\ plan' = setPlanScenes(plan, c.id, "audioUrl", UrlOf(c.n))
                  /\ dlgStatus' = setStatus(dlgStatus, c.id, "completed")
             ELSE /\ plan' = plan
                  /\ dlgStatus' = setStatus(dlgStatus, c.id, "failed")
    /\ calls' = calls \ {c}
    /\ UNCHANGED <<streaming, planError, imgStatus, imgError, vidStatus, vidError, narStatus,
                   nextCall, bulks, lastStart>>
    /\ staleCalls' = staleCalls \ {c.n}
    /\ UNCHANGED <<jobVars, streamVars, parseVars, requestVars>>

NextPage ==
    \/ HandleGenerate
    \/ PlanStreamEnds
    \/ GenerateAllImages
    \/ \E s \in SceneIds :
          \/ GenerateImage(s)
          \/ GenerateVideo(s)
          \/ GenerateNarration(s)
          \/ GenerateDialogue(s)
    \/ ImageSettles
    \/ VideoSettles
    \/ NarrationSettles
    \/ DialogueSettles

(***************************************************************************)
(* videoAI: the submit request of generateSceneVideo (voiceAI.ts:132-169)  *)
(*                                                                         *)
(* durationSeconds is an optional number: not given, or a number of        *)
(* seconds (0 is falsy like a missing one).                                *)
(***************************************************************************)
MaxRequested == 12
DEFAULT_DURATION == 5

VideoModels == {"kling-1.6", "kling-1.6-pro", "luma", "wan-480p", "minimax"}

\* VIDEO_MODEL_INFO[model].maxDuration (voiceAI.ts:132-144)
maxDuration(model) ==
    CASE model \in {"kling-1.6", "kling-1.6-pro"} -> 10
      [] model \in {"luma", "wan-480p"} -> 5
      [] model = "minimax" -> 6

Durations ==
    {[given |-> FALSE, seconds |-> 0]} \cup { [given |-> TRUE, seconds |-> n] : n \in 0..MaxRequested }

VideoParams ==
    [model : VideoModels, durationSeconds : Durations, aspectRatio : {"", "16:9"},
     imageUrl : {"u1"}]

\* Math.min(params.durationSeconds || 5, info.maxDuration)  (voiceAI.ts:168)
requestDuration_Unclamped(model, requested) ==
    IF requested.given /\ requested.seconds # 0 THEN requested.seconds ELSE DEFAULT_DURATION
requestDuration(model, requested) ==
    LET wanted == IF requested.given /\ requested.seconds # 0
                  THEN requested.seconds ELSE DEFAULT_DURATION
    IN IF wanted < maxDuration(model) THEN wanted ELSE maxDuration(model)

\* the request body (voiceAI.ts:165-173); duration is sent as a string, and
\* aspect_ratio only when it is given ("" here: not sent)
requestBody(params) ==
    [duration |-> ToString(requestDuration(params.model, params.durationSeconds)),
     image_url |-> params.imageUrl,
     aspect_ratio |-> params.aspectRatio]

InitVideoRequest ==
    /\ vpc = "call"
    /\ videoParams \in VideoParams
    /\ videoBody = [duration |-> "", image_url |-> "", aspect_ratio |-> ""]
    /\ ipc = "sent"
    /\ imageParams = [provider |-> "openai", model |-> "gpt-image-1", referenceImageUrl |-> "",
                      outputFormat |-> ""]
    /\ imageBody = [target |-> "", image_url |-> "", image_prompt |-> "", output_format |-> ""]
    /\ cpc = "ended"
    /\ voiceInput = [characters |-> [present |-> TRUE, list |-> <<>>], characterId |-> "",
                     line |-> "", ttsProvider |-> "openai", key |-> ""]
    /\ voiceRequest = NoVoiceRequest
    /\ dlgResult = "none"
    /\ upc = "idle"
    /\ unitStatus = "idle"
    /\ plan = NoPlan
    /\ streaming = FALSE
    /\ planError = ""
    /\ imgStatus = [s \in SceneIds |-> "idle"]
    /\ imgError = [s \in SceneIds |-> ""]
    /\ vidStatus = [s \in SceneIds |-> "idle"]
    /\ vidError = [s \in SceneIds |-> ""]
    /\ narStatus = [s \in SceneIds |-> "idle"]
    /\ dlgStatus = [s \in SceneIds |-> "idle"]
    /\ calls = {}
    /\ nextCall = 1
    /\ bulks = <<>>
    /\ lastStart = [kind |-> "none", id |-> "", status |-> "idle", error |-> ""]
    /\ firstDone = [n |-> 0, kind |-> "none", id |-> "", with |-> {}]
    /\ staleCalls = {}
    /\ provider = "replicate"
    /\ jpc = "done"
    /\ i = 0
    /\ pred = [status |-> ""]
    /\ outcome = NoOutcome
    /\ submits = 0 /\ polls = 0 /\ delays = 0 /\ slept = 0 /\ fetches = 0
    /\ firstSuccessAt = 0
    /\ cleanPending = TRUE
    /\ sawFailure = FALSE
    /\ httpFailed = FALSE
    /\ submitTerminal = FALSE
    /\ rejection = NoRejection
    /\ invocations = 1
    /\ allSubmits = 0
    /\ spc = "done"
    /\ frames = <<>>
    /\ net = <<>>
    /\ fullText = <<>>
    /\ chunkCalls = <<>>
    /\ doneCalls = <<>>
    /\ errorCalls = <<>>
    /\ threw = {}
    /\ cause = "none"
    /\ ppc = "done"
    /\ rawText = <<>>
    /\ doc = [kind |-> "malformed", parts |-> FALSE, scenesKind |-> "absent", scenes |-> <<>>]
    /\ parsed = [kind |-> "none"]
    /\ reparsed = [kind |-> "none"]

\* generateSceneVideo up to its first await (voiceAI.ts:160-182)
BuildVideoRequest ==
    /\ vpc = "call"
    /\ videoBody' = requestBody(videoParams)
    /\ vpc' = "sent"
    /\ UNCHANGED <<videoParams, ipc, imageParams, imageBody>>
    /\ UNCHANGED <<cpc, voiceInput, voiceRequest, dlgResult, upc, unitStatus>>
    /\ UNCHANGED <<jobVars, streamVars, parseVars, pageVars>>

NextVideoRequest == BuildVideoRequest

(***************************************************************************)
(* imageAI.ts: the submit request that generateSceneImage builds           *)
(*                                                                         *)
(* A member of the request that is not sent is "".  The provider and the   *)
(* model are two independent selections of the page (page.tsx:134-135,     *)
(* :768-792): changing the provider leaves the model as it was, so every   *)
(* pair can reach generateSceneImage.                                      *)
(***************************************************************************)
ImageProviders == {"replicate", "fal", "openai"}
ImageModels ==
    {"flux-kontext-pro", "flux-1.1-pro", "flux-dev", "fal-flux-kontext", "fal-flux-pro",
     "gpt-image-1"}

ImageParams ==
    [provider : ImageProviders, model : ImageModels, referenceImageUrl : {"", "ref-1", "ref-2"},
     outputFormat : {"", "webp"}]

\* model.includes("kontext") / endpoint.includes("kontext") (imageAI.ts:52, :103)
includesKontext(name) ==
    name \in {"flux-kontext-pro", "fal-flux-kontext", "black-forest-labs/flux-kontext-pro",
              "fal-ai/flux-pro/kontext"}

\* REPLICATE_MODELS[p.model] || "black-forest-labs/flux-kontext-pro" (imageAI.ts:26-30, :51)
replicateModel(model) ==
    CASE model = "flux-kontext-pro" -> "black-forest-labs/flux-kontext-pro"
      [] model = "flux-1.1-pro" -> "black-forest-labs/flux-1.1-pro"
      [] model = "flux-dev" -> "black-forest-labs/flux-dev"
      [] OTHER -> "black-forest-labs/flux-kontext-pro"

\* FAL_ENDPOINTS[p.model] || "fal-ai/flux-pro/kontext" (imageAI.ts:32-35, :102)
falEndpoint(model) ==
    CASE model = "fal-flux-kontext" -> "fal-ai/flux-pro/kontext"
      [] model = "fal-flux-pro" -> "fal-ai/flux-pro/v1.1"
      [] OTHER -> "fal-ai/flux-pro/kontext"

\* callReplicate: the input of the prediction (imageAI.ts:50-74)
replicateInput(p) ==
    LET isKontext == includesKontext(p.model)
        given == p.referenceImageUrl # ""
    IN [target |-> replicateModel(p.model),
        image_url |-> IF given /\ isKontext THEN p.referenceImageUrl ELSE "",
        image_prompt |-> IF given /\ ~isKontext THEN p.referenceImageUrl ELSE "",
        output_format |-> Or(p.outputFormat, "png")]

\* callFal: the body of the submission (imageAI.ts:101-118)
falBody(p) ==
    LET isKontext == includesKontext(falEndpoint(p.model))
    IN [target |-> falEndpoint(p.model),
        image_url |-> IF p.referenceImageUrl # "" /\ isKontext THEN p.referenceImageUrl ELSE "",
        image_prompt |-> "",
        output_format |-> Or(p.outputFormat, "png")]

\* callOpenAI: the body of the request (imageAI.ts:151-165): the model is fixed
\* and neither the reference image nor the output format is sent
openaiBody(p) ==
    [target |-> "gpt-image-1", image_url |-> "", image_prompt |-> "", output_format |-> ""]

\* generateSceneImage (imageAI.ts:42-47)
imageRequest(p) ==
    CASE p.provider = "replicate" -> replicateInput(p)
      [] p.provider = "fal" -> falBody(p)
      [] p.provider = "openai" -> openaiBody(p)

InitImageRequest ==
    /\ vpc = "sent"
    /\ videoParams = [model |-> "luma", durationSeconds |-> [given |-> FALSE, seconds |-> 0],
                      aspectRatio |-> "", imageUrl |-> ""]
    /\ videoBody = [duration |-> "", image_url |-> "", aspect_ratio |-> ""]
    /\ ipc = "call"
    /\ imageParams \in ImageParams
    /\ imageBody = [target |-> "", image_url |-> "", image_prompt |-> "", output_format |-> ""]
    /\ cpc = "ended"
    /\ voiceInput = [characters |-> [present |-> TRUE, list |-> <<>>], characterId |-> "",
                     line |-> "", ttsProvider |-> "openai", key |-> ""]
    /\ voiceRequest = NoVoiceRequest
    /\ dlgResult = "none"
    /\ upc = "idle"
    /\ unitStatus = "idle"
    /\ plan = NoPlan
    /\ streaming = FALSE
    /\ planError = ""
    /\ imgStatus = [s \in SceneIds |-> "idle"]
    /\ imgError = [s \in SceneIds |-> ""]
    /\ vidStatus = [s \in SceneIds |-> "idle"]
    /\ vidError = [s \in SceneIds |-> ""]
    /\ narStatus = [s \in SceneIds |-> "idle"]
    /\ dlgStatus = [s \in SceneIds |-> "idle"]
    /\ calls = {}
    /\ nextCall = 1
    /\ bulks = <<>>
    /\ lastStart = [kind |-> "none", id |-> "", status |-> "idle", error |-> ""]
    /\ firstDone = [n |-> 0, kind |-> "none", id |-> "", with |-> {}]
    /\ staleCalls = {}
    /\ provider = "replicate"
    /\ jpc = "done"
    /\ i = 0
    /\ pred = [status |-> ""]
    /\ outcome = NoOutcome
    /\ submits = 0 /\ polls = 0 /\ delays = 0 /\ slept = 0 /\ fetches = 0
    /\ firstSuccessAt = 0
    /\ cleanPending = TRUE
    /\ sawFailure = FALSE
    /\ httpFailed = FALSE
    /\ submitTerminal = FALSE
    /\ rejection = NoRejection
    /\ invocations = 1
    /\ allSubmits = 0
    /\ spc = "done"
    /\ frames = <<>>
    /\ net = <<>>
    /\ fullText = <<>>
    /\ chunkCalls = <<>>
    /\ doneCalls = <<>>
    /\ errorCalls = <<>>
    /\ threw = {}
    /\ cause = "none"
    /\ ppc = "done"
    /\ rawText = <<>>
    /\ doc = [kind |-> "malformed", parts |-> FALSE, scenesKind |-> "absent", scenes |-> <<>>]
    /\ parsed = [kind |-> "none"]
    /\ reparsed = [kind |-> "none"]

\* generateSceneImage up to the first await of its adapter (imageAI.ts:42-74,
\* :101-118, :151-165)
BuildImageRequest ==
    /\ ipc = "call"
    /\ imageBody' = imageRequest(imageParams)
    /\ ipc' = "sent"
    /\ UNCHANGED <<imageParams, vpc, videoParams, videoBody>>
    /\ UNCHANGED <<cpc, voiceInput, voiceRequest, dlgResult, upc, unitStatus>>
    /\ UNCHANGED <<jobVars, streamVars, parseVars, pageVars>>

NextImageRequest == BuildImageRequest

(***************************************************************************)
(* page.tsx, voiceAI.ts: the speech request of one dialogue line           *)
(*                                                                         *)
(* generateDialogue builds the params of generateVoice from the line and   *)
(* the plan's characters; the adapter builds the request from the params.  *)
(* A member that is absent or empty is "".  The plan is what               *)
(* parseContentPlan returned: it checks only scenes, so characters may be  *)
(* absent and a character may lack its voice member.                       *)
(***************************************************************************)
\* the voice used when casting gives none (page.tsx:283)
DEFAULT_VOICE == "alloy"
\* the voice of callElevenLabs when the params name none (voiceAI.ts:67)
DEFAULT_ELEVENLABS_VOICE == "21m00Tcm4TlvDq8ikWAM"

\* VoiceCasting (types.ts:55-61); present is FALSE when the character has no voice member
Voices ==
    {[present |-> FALSE, suggestedTTSVoice |-> "", elevenLabsVoiceId |-> ""]}
    \cup [present : {TRUE}, suggestedTTSVoice : {"", "nova"}, elevenLabsVoiceId : {"", "el-1"}]

Character(id, voice) == [id |-> id, voice |-> voice]

\* plan.characters (types.ts:37): absent, or a list of characters
PlanCharacters ==
    {[present |-> FALSE, list |-> <<>>], [present |-> TRUE, list |-> <<>>]}
    \cup { [present |-> TRUE, list |-> <<Character("c1", v)>>] : v \in Voices }
    \cup { [present |-> TRUE,
            list |-> <<Character("c1", v),
                       Character("c2", [present |-> TRUE, suggestedTTSVoice |-> "onyx",
                                        elevenLabsVoiceId |-> "el-2"])>>] : v \in Voices }

VoiceInputs ==
    [characters : PlanCharacters, characterId : {"c1", "c2", "c9"}, line : {"", "line"},
     ttsProvider : {"openai", "elevenlabs"}, key : Keys]

\* plan.characters.find(c => c.id === charId) (page.tsx:282): the first match
Matching(characters, charId) ==
    {k \in 1..Len(characters.list) : characters.list[k].id = charId}
findCharacter(characters, charId) ==
    characters.list[CHOOSE k \in Matching(characters, charId) :
                        \A j \in Matching(characters, charId) : k <= j]

\* getVoiceForChar (page.tsx:281-284): throws a TypeError when plan.characters is
\* absent and when the matching character has no voice member
getVoiceForChar(characters, charId) ==
    IF ~characters.present THEN [threw |-> TRUE, voice |-> ""]
    ELSE IF Matching(characters, charId) = {} THEN [threw |-> FALSE, voice |-> DEFAULT_VOICE]
    ELSE LET char == findCharacter(characters, charId)
         IN IF ~char.voice.present THEN [threw |-> TRUE, voice |-> ""]
            ELSE [threw |-> FALSE, voice |-> Or(char.voice.suggestedTTSVoice, DEFAULT_VOICE)]

\* the params that generateDialogue gives to generateVoice (page.tsx:318-323):
\* provider, apiKey, text and voice; elevenLabsVoiceId is not among them
dialogueParams(input, voice) ==
    [provider |-> input.ttsProvider, text |-> input.line, voice |-> voice,
     elevenLabsVoiceId |-> ""]

\* the voice of the request: body.voice of callOpenAITTS (voiceAI.ts:48-54), the
\* voice id in the URL of callElevenLabs (voiceAI.ts:67-69)
speechRequest(params) ==
    [sent |-> TRUE, provider |-> params.provider, voice |-> params.voice,
     voiceId |-> IF params.provider = "elevenlabs"
                 THEN Or(params.elevenLabsVoiceId, DEFAULT_ELEVENLABS_VOICE)
                 ELSE ""]

InitVoiceRequest ==
    /\ vpc = "sent"
    /\ videoParams = [model |-> "luma", durationSeconds |-> [given |-> FALSE, seconds |-> 0],
                      aspectRatio |-> "", imageUrl |-> ""]
    /\ videoBody = [duration |-> "", image_url |-> "", aspect_ratio |-> ""]
    /\ ipc = "sent"
    /\ imageParams = [provider |-> "openai", model |-> "gpt-image-1", referenceImageUrl |-> "",
                      outputFormat |-> ""]
    /\ imageBody = [target |-> "", image_url |-> "", image_prompt |-> "", output_format |-> ""]
    /\ cpc = "call"
    /\ voiceInput \in VoiceInputs
    /\ voiceRequest = NoVoiceRequest
    /\ dlgResult = "none"
    /\ upc = "idle"
    /\ unitStatus = "idle"
    /\ plan = NoPlan
    /\ streaming = FALSE
    /\ planError = ""
    /\ imgStatus = [s \in SceneIds |-> "idle"]
    /\ imgError = [s \in SceneIds |-> ""]
    /\ vidStatus = [s \in SceneIds |-> "idle"]
    /\ vidError = [s \in SceneIds |-> ""]
    /\ narStatus = [s \in SceneIds |-> "idle"]
    /\ dlgStatus = [s \in SceneIds |-> "idle"]
    /\ calls = {}
    /\ nextCall = 1
    /\ bulks = <<>>
    /\ lastStart = [kind |-> "none", id |-> "", status |-> "idle", error |-> ""]
    /\ firstDone = [n |-> 0, kind |-> "none", id |-> "", with |-> {}]
    /\ staleCalls = {}
    /\ provider = "replicate"
    /\ jpc = "done"
    /\ i = 0
    /\ pred = [status |-> ""]
    /\ outcome = NoOutcome
    /\ submits = 0 /\ polls = 0 /\ delays = 0 /\ slept = 0 /\ fetches = 0
    /\ firstSuccessAt = 0
    /\ cleanPending = TRUE
    /\ sawFailure = FALSE
    /\ httpFailed = FALSE
    /\ submitTerminal = FALSE
    /\ rejection = NoRejection
    /\ invocations = 1
    /\ allSubmits = 0
    /\ spc = "done"
    /\ frames = <<>>
    /\ net = <<>>
    /\ fullText = <<>>
    /\ chunkCalls = <<>>
    /\ doneCalls = <<>>
    /\ errorCalls = <<>>
    /\ threw = {}
    /\ cause = "none"
    /\ ppc = "done"
    /\ rawText = <<>>
    /\ doc = [kind |-> "malformed", parts |-> FALSE, scenesKind |-> "absent", scenes |-> <<>>]
    /\ parsed = [kind |-> "none"]
    /\ reparsed = [kind |-> "none"]

\* generateDialogue up to its await (page.tsx:309-324) with generateVoice up to
\* the adapter's request (voiceAI.ts:33-54, :66-69); a throw inside the try block
\* goes to the catch block (page.tsx:333-335)
StartDialogue ==
    /\ cpc = "call"
    /\ cpc' = "ended"
    /\ IF voiceInput.line = "" \/ voiceInput.key = ""
       THEN /\ dlgResult' = "returned"
            /\ voiceRequest' = voiceRequest
       ELSE LET cast == getVoiceForChar(voiceInput.characters, voiceInput.characterId)
            IN IF cast.threw
               THEN /\ dlgResult' = "failed"
                    /\ voiceRequest' = voiceRequest
               ELSE /\ dlgResult' = "running"
                    /\ voiceRequest' = speechRequest(dialogueParams(voiceInput, cast.voice))
    /\ UNCHANGED <<voiceInput, vpc, videoParams, videoBody, ipc, imageParams, imageBody, upc, unitStatus>>
    /\ UNCHANGED <<jobVars, streamVars, parseVars, pageVars>>

NextVoiceRequest == StartDialogue

(***************************************************************************)
(* page: one generation request from the click to its last write           *)
(* (page.tsx:210-236, :249-275, :286-307) together with the adapter call   *)
(* it awaits (imageAI.ts:40-165, voiceAI.ts:33-95, :172-220)               *)
(*                                                                         *)
(* The adapter is the machine of the first section; it starts when the     *)
(* handler calls it.                                                       *)
(***************************************************************************)
\* the adapters behind generateImage, generateVideo and generateNarration
UnitProviders == Providers \ {"gpt"}

\* the status the handler writes when the awaited adapter call has returned or
\* thrown (page.tsx:231 and :234, :270 and :273, :301 and :305)
settledStatus_WithoutCatch(o) == IF o.kind = "ok" THEN "completed" ELSE "running"
settledStatus(o) == IF o.kind = "ok" THEN "completed" ELSE "failed"

InitUnit ==
    /\ provider \in UnitProviders
    /\ jpc = "idle"
    /\ i = 0
    /\ pred = [status |-> ""]
    /\ outcome = NoOutcome
    /\ submits = 0 /\ polls = 0 /\ delays = 0 /\ slept = 0 /\ fetches = 0
    /\ firstSuccessAt = 0
    /\ cleanPending = TRUE
    /\ sawFailure = FALSE
    /\ httpFailed = FALSE
    /\ submitTerminal = FALSE
    /\ rejection = NoRejection
    /\ invocations = 1
    /\ allSubmits = 0
    /\ spc = "done"
    /\ frames = <<>>
    /\ net = <<>>
    /\ fullText = <<>>
    /\ chunkCalls = <<>>
    /\ doneCalls = <<>>
    /\ errorCalls = <<>>
    /\ threw = {}
    /\ cause = "none"
    /\ ppc = "done"
    /\ rawText = <<>>
    /\ doc = [kind |-> "malformed", parts |-> FALSE, scenesKind |-> "absent", scenes |-> <<>>]
    /\ parsed = [kind |-> "none"]
    /\ reparsed = [kind |-> "none"]
    /\ plan = [loaded |-> FALSE, scenes |-> <<>>, characters |-> <<>>]
    /\ streaming = FALSE
    /\ planError = ""
    /\ imgStatus = [s \in {"s1", "s2"} |-> "idle"]
    /\ imgError = [s \in {"s1", "s2"} |-> ""]
    /\ vidStatus = [s \in {"s1", "s2"} |-> "idle"]
    /\ vidError = [s \in {"s1", "s2"} |-> ""]
    /\ narStatus = [s \in {"s1", "s2"} |-> "idle"]
    /\ dlgStatus = [s \in {"s1", "s2"} |-> "idle"]
    /\ calls = {}
    /\ nextCall = 1
    /\ bulks = <<>>
    /\ lastStart = [kind |-> "none", id |-> "", status |-> "idle", error |-> ""]
    /\ firstDone = [n |-> 0, kind |-> "none", id |-> "", with |-> {}]
    /\ staleCalls = {}
    /\ vpc = "sent"
    /\ videoParams = [model |-> "luma", durationSeconds |-> [given |-> FALSE, seconds |-> 0],
                      aspectRatio |-> "", imageUrl |-> ""]
    /\ videoBody = [duration |-> "", image_url |-> "", aspect_ratio |-> ""]
    /\ ipc = "sent"
    /\ imageParams = [provider |-> "openai", model |-> "gpt-image-1", referenceImageUrl |-> "",
                      outputFormat |-> ""]
    /\ imageBody = [target |-> "", image_url |-> "", image_prompt |-> "", output_format |-> ""]
    /\ cpc = "ended"
    /\ voiceInput = [characters |-> [present |-> TRUE, list |-> <<>>], characterId |-> "",
                     line |-> "", ttsProvider |-> "openai", key |-> ""]
    /\ voiceRequest = NoVoiceRequest
    /\ dlgResult = "none"
    /\ upc = "idle"
    /\ unitStatus = "idle"

\* the handler up to its await: without the provider's key it returns, otherwise
\* it sets the unit to running and calls the adapter (page.tsx:210-227,
\* :249-259, :286-297)
StartUnit ==
    /\ upc = "idle"
    /\ \E key \in Keys :
          IF key = ""
          THEN UNCHANGED <<upc, unitStatus, jpc>>
          ELSE /\ unitStatus' = "running"
               /\ upc' = "awaiting"
               /\ jpc' = "submit"
    /\ UNCHANGED <<provider, i, pred, outcome, submits, polls, delays, slept, fetches,
                   firstSuccessAt, cleanPending, sawFailure, httpFailed, submitTerminal,
                   rejection, invocations, allSubmits>>
    /\ UNCHANGED <<vpc, videoParams, videoBody, ipc, imageParams, imageBody,
                   cpc, voiceInput, voiceRequest, dlgResult>>
    /\ UNCHANGED <<streamVars, parseVars, pageVars>>

\* the adapter call has returned or thrown: the rest of the handler
\* (page.tsx:228-235, :267-274, :298-306)
SettleUnit ==
    /\ upc = "awaiting"
    /\ jpc = "done"
    /\ unitStatus' = settledStatus(outcome)
    /\ upc' = "ended"
    /\ UNCHANGED <<vpc, videoParams, videoBody, ipc, imageParams, imageBody,
                   cpc, voiceInput, voiceRequest, dlgResult>>
    /\ UNCHANGED <<jobVars, streamVars, parseVars, pageVars>>

\* a network call of the adapter returns or rejects, a delay of its polling loop
\* ends, or the handler goes on after its await
UnitProceeds ==
    \/ SubmitRejected
    \/ SubmitReplicate
    \/ SubmitFal
    \/ RequestSync
    \/ Sleep
    \/ PollReplicate
    \/ PollFal
    \/ FetchResult
    \/ SettleUnit

NextUnit ==
    \/ StartUnit
    \/ UnitProceeds

(***************************************************************************)
(* Specifications: one per component; each Init leaves the other           *)
(* components idle                                                         *)
(***************************************************************************)
SpecJob == InitJob /\ [][NextJob]_vars
SpecStream == InitStream /\ [][NextStream]_vars
SpecParse == InitParse /\ [][NextParse]_vars
SpecPage == InitPage /\ [][NextPage]_vars
\* callGPTStream ends when the response ends or the connection breaks: the
\* planning request does not stream forever
SpecPageFair == SpecPage /\ WF_vars(PlanStreamEnds)
SpecVideoRequest == InitVideoRequest /\ [][NextVideoRequest]_vars
SpecImageRequest == InitImageRequest /\ [][NextImageRequest]_vars
SpecVoiceRequest == InitVoiceRequest /\ [][NextVoiceRequest]_vars
\* every network call of an adapter returns or rejects and every timer fires
SpecUnit == InitUnit /\ [][NextUnit]_vars /\ WF_vars(UnitProceeds)

(***************************************************************************)
(* Properties of the queued adapters (checked under SpecJob)               *)
(***************************************************************************)
\* the non-empty values a terminal-success payload offers as the asset
AssetCandidates(p, payload) ==
    CASE p = "replicate" ->
           (IF payload.output.array
            THEN (IF Len(payload.output.vals) > 0 THEN {payload.output.vals[1]} ELSE {})
            ELSE {payload.output.vals[1]}) \ {""}
      [] p = "fal" -> {payload.images0, payload.image} \ {""}
      [] p = "video" -> {payload.video, payload.videos0, payload.outputVideo, payload.url} \ {""}

ExtractionMessages ==
    {"No output URL from Replicate", "No image URL in FAL response", "No video URL in FAL response"}
FailureMessages ==
    {"Replicate failed", "FAL failed", "FAL Video generation failed", "provider detail"}

\* the success / extraction-failure contract of a call that ended on the payload in pred
SuccessContract ==
    /\ AssetCandidates(provider, pred) # {} =>
          outcome.kind = "ok" /\ outcome.val \in AssetCandidates(provider, pred)
    /\ AssetCandidates(provider, pred) = {} =>
          outcome.kind = "error" /\ outcome.val \in ExtractionMessages

\* C1: when the provider reports non-terminal statuses for k < maxAttempts polls and
\* success on poll k+1, the call returns the asset of the success payload after
\* exactly k+1 status polls: no status poll (and no delay) follows the success
\* report, and the call does not give up before a terminal report while fewer than
\* maxAttempts polls were made.
C1_ReturnsAfterKPlusOnePolls ==
    /\ firstSuccessAt # 0 =>
          /\ polls = firstSuccessAt
          /\ delays = firstSuccessAt
          /\ polls <= MaxAttempts(provider)
          /\ jpc \in {"fetch", "done"}
    /\ (jpc = "done" /\ firstSuccessAt # 0 /\ ~sawFailure /\ AssetCandidates(provider, pred) # {}) =>
          outcome.kind = "ok" /\ outcome.val \in AssetCandidates(provider, pred)
    /\ (jpc = "done" /\ polls > 0 /\ firstSuccessAt = 0 /\ ~sawFailure) =>
          polls = MaxAttempts(provider)

\* C1 witness: a video job that was pending for maxAttempts - 1 polls and succeeded
\* on the last poll of the budget
C1_Witness ==
    /\ jpc = "done"
    /\ provider = "video"
    /\ cleanPending
    /\ firstSuccessAt = MaxAttempts(provider)
    /\ outcome.kind = "ok"

\* C2: when the provider never reports a terminal status, the call fails after
\* exactly maxAttempts status polls with a timeout error, which is neither a
\* provider-failure error nor a missing-asset error.
C2_TimeoutIsDistinctFailure ==
    (jpc = "done" /\ polls > 0 /\ firstSuccessAt = 0 /\ ~sawFailure /\ cleanPending) =>
        /\ polls = MaxAttempts(provider)
        /\ outcome.kind = "error"
        /\ outcome.val \notin ExtractionMessages
        /\ outcome.val \notin FailureMessages

\* C3: when the submit response is already terminal the call makes no status poll,
\* no delay and no result fetch, and ends at once on the submit payload under the
\* same success / extraction-failure contract as a job that was polled to success.
C3_ImmediateResultNeedsNoPoll ==
    /\ submitTerminal =>
          /\ jpc = "done" /\ polls = 0 /\ delays = 0 /\ fetches = 0
          /\ SuccessContract
    /\ (jpc = "done" /\ firstSuccessAt # 0 /\ ~sawFailure) => SuccessContract

\* C3 witness: a FAL image submit without request id that carried the asset
C3_Witness ==
    /\ jpc = "done"
    /\ provider = "fal"
    /\ submitTerminal
    /\ submits = 1
    /\ outcome.kind = "ok"

\* the generic fallback messages
GenericMessages ==
    {"Replicate error 401", "FAL error 401", "FAL Video error 401", "OpenAI error 401",
     "OpenAI TTS error 401", "ElevenLabs error 401", "GPT API error 401"}

\* the adapters that call the OpenAI API
OpenAIAdapters == {"openai", "openai-tts", "gpt"}

\* the call ended on a non-success response to its request whose body was JSON
RejectedWithBody == jpc = "done" /\ rejection.rejected /\ rejection.json

\* C15 as stated: for every adapter, a non-success response whose body carries
\* error.message m fails the call with exactly m, and the generic message is used
\* only when the body carries no error.message.
C15_ErrorMessageSurfaces ==
    RejectedWithBody =>
        /\ rejection.body.errorMessage # "" => outcome = Err(rejection.body.errorMessage)
        /\ outcome.val \in GenericMessages => rejection.body.errorMessage = ""

\* C15 amended: the OpenAI adapters (text, image, speech) fail with exactly the
\* body's error.message; the Replicate, FAL image, FAL video and ElevenLabs
\* adapters fail with exactly the body's detail, and the FAL video adapter, when
\* there is no detail, with the body's message; an adapter uses its generic
\* message only when the body carries none of the members it reads.
C15_ProviderMessageSurfaces ==
    RejectedWithBody =>
        LET body == rejection.body
        IN /\ (provider \in OpenAIAdapters /\ body.errorMessage # "") =>
                  outcome = Err(body.errorMessage)
           /\ (provider \notin OpenAIAdapters /\ body.detail # "") =>
                  outcome = Err(body.detail)
           /\ (provider = "video" /\ body.detail = "" /\ body.message # "") =>
                  outcome = Err(body.message)
           /\ outcome.kind = "error"
           /\ outcome.val \in GenericMessages =>
                  /\ provider \in OpenAIAdapters => body.errorMessage = ""
                  /\ provider \notin OpenAIAdapters => body.detail = ""
                  /\ provider = "video" => body.message = ""

\* C15 witness: the OpenAI image adapter was answered 401 with the body
\* { "error": { "message": "bad key" } } and failed with "bad key"
C15_Witness ==
    /\ RejectedWithBody
    /\ provider = "openai"
    /\ rejection.body = [detail |-> "", message |-> "", errorMessage |-> "bad key"]
    /\ outcome = Err("bad key")

\* C20: one invocation of an adapter sends exactly one submit request: none is
\* added after a rejected submit, a provider failure, an extraction failure or a
\* timeout, and every later invocation sends one submit request of its own.
C20_OneSubmitPerInvocation ==
    /\ submits = IF jpc = "submit" THEN 0 ELSE 1
    /\ allSubmits = (invocations - 1) + submits

\* C20 witness: the submit request of a second invocation was rejected and the
\* invocation ended with the error; the two invocations sent two submit requests
C20_Witness ==
    /\ invocations = 2
    /\ allSubmits = 2
    /\ rejection.rejected
    /\ jpc = "done"
    /\ outcome.kind = "error"

\* the generic message of a provider-reported failure
GenericFailureMessage ==
    CASE provider = "replicate" -> "Replicate failed"
      [] provider = "fal" -> "FAL failed"
      [] provider = "video" -> "FAL Video generation failed"

\* C21: once a status poll has reported an explicit failed state the call has
\* ended on that report, with the report's error detail or, when it has none,
\* with the generic failure message; and after a terminal report, success or
\* failure, no status poll and no delay was added.
C21_TerminalPollEndsPolling ==
    /\ sawFailure =>
          /\ jpc = "done"
          /\ pred.status \in {"failed", "FAILED"}
          /\ pred.error # "" => outcome = Err(pred.error)
          /\ pred.error = "" => outcome = Err(GenericFailureMessage)
          /\ delays = polls
    /\ firstSuccessAt # 0 =>
          /\ jpc \in {"fetch", "done"}
          /\ polls = firstSuccessAt
          /\ delays = firstSuccessAt
          /\ ~sawFailure

\* C21 witness: a Replicate call was pending for some polls, then a poll reported
\* failed without detail and the call ended with the generic message
C21_Witness ==
    /\ provider = "replicate"
    /\ sawFailure
    /\ polls > 1
    /\ jpc = "done"
    /\ outcome = Err("Replicate failed")

\* the messages of an HTTP-level provider error: the provider's own detail or
\* the adapter's generic message for a rejected request
HttpErrorMessages == {"provider detail"} \cup GenericMessages

\* C22: a status poll or result fetch answered with a non-success HTTP status
\* makes the generation call fail with an HTTP-level provider error: the call
\* does not go on as if the job were pending and does not report a missing
\* asset.
C22_HttpFailureIsReported ==
    httpFailed =>
        /\ jpc = "done"
        /\ outcome.kind = "error"
        /\ outcome.val \in HttpErrorMessages

\* the candidate paths of a terminal-success payload, in the order of the
\* specification, each with the value it resolves to ("" when it does not resolve)
CandidatePaths(p, payload) ==
    CASE p = "replicate" ->
           <<IF payload.output.array
             THEN (IF Len(payload.output.vals) > 0 THEN payload.output.vals[1] ELSE "")
             ELSE payload.output.vals[1]>>
      [] p = "fal" -> <<payload.images0, payload.image>>
      [] p = "video" -> <<payload.video, payload.videos0, payload.outputVideo, payload.url>>

Resolving(paths) == {k \in 1..Len(paths) : paths[k] # ""}
FirstResolving(paths) == paths[CHOOSE k \in Resolving(paths) : \A j \in Resolving(paths) : k <= j]

MissingAssetMessage ==
    CASE provider = "replicate" -> "No output URL from Replicate"
      [] provider = "fal" -> "No image URL in FAL response"
      [] provider = "video" -> "No video URL in FAL response"

\* the call ended with the extraction from a terminal-success payload, which is
\* in pred: the prediction that reported succeeded, the result fetched after
\* COMPLETED, or the submit response of a request that was not queued
ExtractedFromSuccess ==
    /\ jpc = "done"
    /\ provider \in QueuedProviders
    /\ ~rejection.rejected
    /\ firstSuccessAt # 0 \/ submitTerminal

\* C23: the extraction from a terminal-success payload returns the first
\* candidate path, in the listed order, that resolves to a non-empty value, and
\* fails with the provider's missing-asset message exactly when no candidate
\* resolves.
C23_FirstResolvingCandidate ==
    ExtractedFromSuccess =>
        LET paths == CandidatePaths(provider, pred)
        IN /\ Resolving(paths) # {} => outcome = Ok(FirstResolving(paths))
           /\ Resolving(paths) = {} => outcome = Err(MissingAssetMessage)
           /\ outcome = Err(MissingAssetMessage) => Resolving(paths) = {}

\* C23 witness: a polled video result whose first path does not resolve and whose
\* second and fourth paths resolve to different values; the second is returned
C23_Witness ==
    /\ ExtractedFromSuccess
    /\ provider = "video"
    /\ fetches = 1
    /\ pred.video = "" /\ pred.videos0 = "u1" /\ pred.url = "u2"
    /\ outcome = Ok("u1")

\* the fixed delay of the specification: 2 s for images, 3 s for video
SpecifiedInterval == IF provider = "video" THEN 3000 ELSE 2000

\* C29: in every polling loop each status query is preceded by exactly one
\* fixed delay (2 s for images, 3 s for video): when a status query is about to
\* be sent exactly one more delay than queries has passed, so the first query
\* comes one full interval after the submit, and at every other point the number
\* of delays equals the number of status polls.
C29_OneDelayPerPoll ==
    /\ jpc = "poll" => delays = polls + 1
    /\ jpc # "poll" => delays = polls
    /\ slept = delays * SpecifiedInterval

\* C29 witness: a video call that ended after three status polls and three
\* delays of 3 s
C29_Witness ==
    /\ provider = "video"
    /\ jpc = "done"
    /\ polls = 3
    /\ delays = 3
    /\ slept = 9000

(***************************************************************************)
(* Properties of callGPTStream (checked under SpecStream)                  *)
(***************************************************************************)
\* content deltas followed by the terminal sentinel, nothing else
DeltasThenSentinel(fs) ==
    /\ Len(fs) >= 2
    /\ fs[Len(fs)].kind = "done"
    /\ \A k \in 1..(Len(fs) - 1) : fs[k].kind = "delta"

\* the stream was read to its end: no rejected fetch or read, a success response
\* with a body
StreamSucceeded == spc = "done" /\ cause = "none"

IsSuffix(s, t) == Len(s) <= Len(t) /\ SubSeq(t, Len(t) - Len(s) + 1, Len(t)) = s

FirstMalformed(fs) ==
    CHOOSE m \in 1..Len(fs) : fs[m].kind = "malformed" /\ \A j \in 1..(m - 1) : fs[j].kind # "malformed"

\* C4: for a successful stream of content deltas d1..dn followed by the sentinel,
\* onChunk is called exactly n times with d1..dn in order, onDone exactly once
\* with d1+...+dn, and onError never (callbacks that throw set aside).
C4_ChunksInOrderThenDone ==
    (StreamSucceeded /\ threw = {} /\ DeltasThenSentinel(frames)) =>
        /\ chunkCalls = Deltas(frames)
        /\ doneCalls = << Concat(Deltas(frames)) >>
        /\ errorCalls = <<>>

\* C5: in every execution, also when onChunk or onDone throws, onError is called at
\* most once, onDone at most once, and never both.
C5_TerminalCallbacksExclusive ==
    /\ Len(errorCalls) <= 1
    /\ Len(doneCalls) <= 1
    /\ ~(doneCalls # <<>> /\ errorCalls # <<>>)

\* C6: what onChunk and onDone receive depends only on the bytes of the stream, not
\* on how the transport cuts them into reads: it is what one read of the whole
\* stream delivers.
C6_IndependentOfReadBoundaries ==
    StreamSucceeded =>
        /\ chunkCalls = Decode(EncodeAll(frames))
        /\ doneCalls = << Concat(Decode(EncodeAll(frames))) >>

\* C7: a malformed frame causes no onError and does not end the stream: every
\* content delta after it still reaches onChunk and the text of onDone; onError is
\* called only for a transport failure (a response without a body counted as one)
\* or a non-success initial response, and then with no onChunk and no onDone in
\* the non-success case.
C7_MalformedFramesAreSkipped ==
    /\ (errorCalls # <<>> /\ threw = {}) => cause \in {"transport", "nobody", "status"}
    /\ cause = "status" => chunkCalls = <<>> /\ doneCalls = <<>>
    /\ (StreamSucceeded /\ \E k \in 1..Len(frames) : frames[k].kind = "malformed") =>
          LET after == Deltas(SubSeq(frames, FirstMalformed(frames) + 1, Len(frames)))
          IN /\ IsSuffix(after, chunkCalls)
             /\ Len(doneCalls) = 1
             /\ IsSuffix(Concat(after), doneCalls[1])

\* the frames in front of the first terminal sentinel
BeforeSentinel(fs) ==
    LET k == CHOOSE k \in 1..Len(fs) : fs[k].kind = "done" /\ \A j \in 1..(k - 1) : fs[j].kind # "done"
    IN SubSeq(fs, 1, k - 1)

\* s is t with some elements left out
RECURSIVE IsSubsequence(_, _)
IsSubsequence(s, t) ==
    IF s = <<>> THEN TRUE
    ELSE IF t = <<>> THEN FALSE
    ELSE IF Head(s) = Head(t) THEN IsSubsequence(Tail(s), Tail(t))
    ELSE IsSubsequence(s, Tail(t))

\* C35: once the terminal sentinel has been received onChunk is called no more:
\* of a stream that holds a sentinel, onChunk receives content of the frames in
\* front of it only, and the text of onDone is made of that content only.
C35_NothingAfterSentinel ==
    (\E k \in 1..Len(frames) : frames[k].kind = "done") =>
        LET before == Deltas(BeforeSentinel(frames))
        IN /\ IsSubsequence(chunkCalls, before)
           /\ \A k \in 1..Len(doneCalls) : Len(doneCalls[k]) <= Len(Concat(before))

(***************************************************************************)
(* Properties of parseContentPlan (checked under SpecParse)                *)
(***************************************************************************)
\* the call returned a plan whose scenes member is an array
ReturnedScenes == ppc = "done" /\ parsed.kind = "plan" /\ parsed.value.scenesKind = "array"

OrderValues(scenes) == { scenes[k].order.v : k \in 1..Len(scenes) }
OrdersDense(scenes) ==
    /\ \A k \in 1..Len(scenes) : scenes[k].order.t = "number"
    /\ \A j, k \in 1..Len(scenes) : j # k => scenes[j].order.v # scenes[k].order.v
    /\ OrderValues(scenes) = 1..Len(scenes)

\* C9 as stated: in every returned plan with n scenes the order values are pairwise
\* distinct and are exactly 1..n, also when explicit and absent orders are mixed.
C9_OrdersAlwaysDense == ReturnedScenes => OrdersDense(parsed.value.scenes)

\* C9 amended: the order values are pairwise distinct and exactly 1..n when every
\* scene's numeric order, where it has one, equals its 1-based position (in
\* particular when no scene has a numeric order).
C9_OrdersDenseWhenPositional ==
    (ReturnedScenes /\ \A k \in 1..Len(doc.scenes) :
                          doc.scenes[k].order.t = "number" => doc.scenes[k].order = Num(k)) =>
        OrdersDense(parsed.value.scenes)

\* C9 witness: a returned plan of at least two scenes, one without order and one
\* with a non-numeric order, none with a number
C9_Witness ==
    /\ ReturnedScenes
    /\ Len(doc.scenes) >= 2
    /\ \A k \in 1..Len(doc.scenes) : doc.scenes[k].order.t # "number"
    /\ \E k \in 1..Len(doc.scenes) : doc.scenes[k].order.t = "string"
    /\ OrdersDense(parsed.value.scenes)

\* C10: in every returned plan all three generated-asset fields of every scene are
\* unset, whatever the raw text carried.
C10_FreshAssets ==
    ReturnedScenes =>
        \A k \in 1..Len(parsed.value.scenes) :
            /\ parsed.value.scenes[k].generatedImageUrl = ""
            /\ parsed.value.scenes[k].generatedVideoUrl = ""
            /\ parsed.value.scenes[k].generatedNarrationUrl = ""

\* C10 witness: a returned plan whose raw text, inside a fenced block, carried all
\* three asset fields for a scene
C10_Witness ==
    /\ ReturnedScenes
    /\ rawText # <<"D">>
    /\ \E k \in 1..Len(doc.scenes) :
          /\ doc.scenes[k].generatedImageUrl = "old"
          /\ doc.scenes[k].generatedVideoUrl = "old"
          /\ doc.scenes[k].generatedNarrationUrl = "old"

\* every number of the plan is finite
AllFinite(value) ==
    value.scenesKind = "array" =>
        \A k \in 1..Len(value.scenes) : value.scenes[k].order.finite

CompletePlan(value) == value.kind = "object" /\ value.parts /\ value.scenesKind # "absent"

\* C12: parseContentPlan either returns a complete plan or fails with the single
\* parse error; it never returns a value that lacks part of the plan (an empty
\* object, a scalar, an object without scenes).
C12_CompletePlanOrError ==
    ppc # "call" =>
        \/ parsed.kind = "error" /\ parsed.message = PARSE_ERROR
        \/ parsed.kind = "plan" /\ CompletePlan(parsed.value)

(***************************************************************************)
(* Properties of the page's generation handlers (checked under SpecPage)   *)
(***************************************************************************)
UnitKinds == {"image", "video", "narration", "dialogue"}

StatusOf(kind, id) ==
    CASE kind = "image" -> imgStatus[id]
      [] kind = "video" -> vidStatus[id]
      [] kind = "narration" -> narStatus[id]
      [] kind = "dialogue" -> dlgStatus[id]

\* the recorded error message of a unit; narration and dialogue units have no
\* error map, so there is never a message recorded for them
ErrorOf(kind, id) ==
    CASE kind = "image" -> imgError[id]
      [] kind = "video" -> vidError[id]
      [] kind \in {"narration", "dialogue"} -> ""

\* a provider call for the unit is started in this step
Started(kind, id) == \E c \in calls' \ calls : c.kind = kind /\ c.id = id

\* C13: for every kind of unit, a step that starts generation for a unit whose
\* status is failed leaves the unit running with no recorded error message, while
\* the provider call it started is still in flight.
C13_RestartClearsError ==
    [][\A kind \in UnitKinds, id \in SceneIds :
          (StatusOf(kind, id) = "failed" /\ Started(kind, id)) =>
              /\ StatusOf(kind, id)' = "running"
              /\ ErrorOf(kind, id)' = ""]_vars

\* C13 witness: a video unit that had failed with a recorded message was started
\* again; it is running, its message is cleared and the provider call has not
\* returned
C13_Witness ==
    /\ lastStart.kind = "video"
    /\ lastStart.status = "failed"
    /\ lastStart.error # ""
    /\ vidStatus[lastStart.id] = "running"
    /\ vidError[lastStart.id] = ""
    /\ \E c \in calls : c.kind = "video" /\ c.id = lastStart.id

\* C14: a unit's status changes only from idle, failed or completed to running
\* when generation starts, from running to completed on success and from running
\* to failed on an error, whose message is then recorded; never from completed to
\* failed or from failed to completed directly; the status pending is never
\* entered.
C14_StatusLifecycle ==
    [][\A kind \in UnitKinds, id \in SceneIds :
          /\ StatusOf(kind, id)' # "pending"
          /\ \/ StatusOf(kind, id)' = StatusOf(kind, id)
             \/ /\ StatusOf(kind, id) \in {"idle", "failed", "completed"}
                /\ StatusOf(kind, id)' = "running"
                /\ Started(kind, id)
             \/ /\ StatusOf(kind, id) = "running"
                /\ StatusOf(kind, id)' = "completed"
             \/ /\ StatusOf(kind, id) = "running"
                /\ StatusOf(kind, id)' = "failed"
                /\ ErrorOf(kind, id)' # ""]_vars

\* the provider calls in flight that bulk operation b started
BulkCalls(b) == { c \in calls : c.op = b }

\* C16: a generate-all-images operation takes the scenes in plan order, never has
\* two of its provider calls in flight, and starts the call for the next scene
\* only when the scene before it has reached completed or failed.
C16_BulkIsSequential ==
    [][\A b \in 1..Len(bulks') :
          LET op == bulks'[b]
              count == Len(op.started)
          IN /\ Cardinality(BulkCalls(b)') <= 1
             /\ op.started = SubSeq(op.scenes, 1, count)
             /\ (\E c \in calls' \ calls : c.op = b) /\ count > 1 =>
                    /\ imgStatus'[op.started[count - 1]] \in {"completed", "failed"}
                    /\ \A c \in BulkCalls(b)' : c.id = op.started[count]]_vars

\* C16 witness: the bulk operation has finished the first scene and its call for
\* the second scene is in flight
C16_Witness ==
    /\ Len(bulks) = 1
    /\ bulks[1].started = <<"s1", "s2">>
    /\ imgStatus["s1"] \in {"completed", "failed"}
    /\ imgStatus["s2"] = "running"
    /\ \E c \in calls : c.op = 1 /\ c.id = "s2"

\* provider call c is rejected in this step
Rejected(c) == c \in calls /\ c \notin calls' /\ StatusOf(c.kind, c.id)' = "failed"

\* the step starts the call for the scene that follows c's scene in c's bulk
\* operation
BulkContinues(c, id) ==
    /\ BulkHasNext(c)
    /\ id = bulks[c.op].scenes[bulks[c.op].pos + 1]
    /\ \E d \in calls' \ calls : d.kind = "image" /\ d.op = c.op /\ d.id = id

\* C17: when the generation of one unit fails, the plan with all its asset URLs
\* stays as it is, and so do the status and the error of every other unit but
\* the scene that the bulk operation of the failed call starts next; a bulk
\* operation with scenes left does start the next one.
C17_FailureIsIsolated ==
    [][\A c \in calls : Rejected(c) =>
          /\ plan' = plan
          /\ \A kind \in UnitKinds, id \in SceneIds :
                (kind # c.kind \/ id # c.id) =>
                    \/ /\ StatusOf(kind, id)' = StatusOf(kind, id)
                       /\ ErrorOf(kind, id)' = ErrorOf(kind, id)
                    \/ kind = "image" /\ BulkContinues(c, id)
          /\ BulkHasNext(c) => \E id \in SceneIds : BulkContinues(c, id)]_vars

\* C17 witness: the first call of a bulk operation was rejected, the operation
\* went on to the second scene, and another unit still has the asset and the
\* status it had
C17_Witness ==
    /\ Len(bulks) = 1
    /\ bulks[1].started = <<"s1", "s2">>
    /\ imgStatus["s1"] = "failed"
    /\ imgError["s1"] # ""
    /\ \E c \in calls : c.op = 1 /\ c.id = "s2"
    /\ narStatus["s1"] = "completed"
    /\ plan.loaded /\ SceneOf(plan, "s1").generatedNarrationUrl # ""

\* C18: every video call in flight carries a non-empty start-image URL, and for a
\* scene without generated image generateVideo makes no provider call (and so
\* changes neither status, error nor plan), whatever the API key.
C18_VideoNeedsImage ==
    /\ \A c \in calls : c.kind = "video" => c.imageUrl # ""
    /\ plan.loaded =>
          \A k \in 1..Len(plan.scenes), key \in Keys :
              plan.scenes[k].generatedImageUrl = "" => videoRequest(plan.scenes[k], key) = {}

\* C18 witness: a video call carrying the image of its scene is in flight while
\* another scene has no image
C18_Witness ==
    /\ plan.loaded
    /\ \E c \in calls :
          /\ c.kind = "video"
          /\ c.imageUrl # ""
          /\ c.imageUrl = SceneOf(plan, c.id).generatedImageUrl
    /\ \E k \in 1..Len(plan.scenes) : plan.scenes[k].generatedImageUrl = ""

\* the provider call c resolves in this step: the unit goes to completed
Succeeds(c) == c \in calls /\ c \notin calls' /\ StatusOf(c.kind, c.id)' = "completed"

\* the step changes the member AssetField(c.kind) of the one scene with c's id,
\* to the URL that call c resolved with, and nothing else of the plan
WritesOneAsset(c) ==
    /\ plan.loaded
    /\ \E k \in 1..Len(plan.scenes) :
          /\ plan.scenes[k].id = c.id
          /\ plan' = [plan EXCEPT !.scenes[k][AssetField(c.kind)] = UrlOf(c.n)]
    /\ plan' # plan

\* C30: a successful generation changes exactly one asset field of the plan:
\* the image, video or narration URL, or the audio URL of the dialogue line, of
\* the scene with the requested id; every other scene, every other member of
\* that scene and the characters with their voice casting stay as they are.
C30_OneAssetFieldChanges ==
    [][\A c \in calls : Succeeds(c) => WritesOneAsset(c)]_vars

\* the result of call n is in the plan and its unit is completed
ResultPresent(n, kind, id) ==
    /\ plan.loaded
    /\ HasScene(plan, id)
    /\ SceneOf(plan, id)[AssetField(kind)] = UrlOf(n)
    /\ StatusOf(kind, id) = "completed"

\* C28: when the calls for two different units were in flight at the same time
\* and both resolve, then after the second has resolved the asset URL and the
\* completed status of both units are in the plan and the status maps, in
\* whichever order the two resolve (unless the step also starts the next
\* generation of the first unit).
C28_ConcurrentWritesBothKept ==
    [][\A c \in calls, a \in {firstDone} :
          (Succeeds(c) /\ c.n \in a.with /\ ~Started(a.kind, a.id)) =>
              /\ ResultPresent(a.n, a.kind, a.id)'
              /\ ResultPresent(c.n, c.kind, c.id)']_vars

\* C27: a planning request that passed the input validation ends: the streaming
\* flag is cleared, and at that moment either a plan is set and the error string
\* is empty, or no plan is set and the error string is not empty; while the
\* request is streaming no plan is set.
C27_PlanRequestEnds ==
    /\ [](streaming => ~plan.loaded)
    /\ [][(streaming /\ ~streaming') =>
             \/ plan'.loaded /\ planError' = ""
             \/ ~plan'.loaded /\ planError' # ""]_vars
    /\ (streaming ~> ~streaming)

\* the provider calls in flight for one unit
InFlight(kind, id) == { c \in calls : c.kind = kind /\ c.id = id }

\* C32: at any time at most one provider job is in flight for a generation unit,
\* also when a bulk generate-all-images operation reaches a scene whose image
\* generation was started from its own button, and when bulk operations overlap.
C32_OneJobPerUnit ==
    \A kind \in UnitKinds, id \in SceneIds : Cardinality(InFlight(kind, id)) <= 1

\* the asset URL of a unit in the current plan, "" when the page has no plan or
\* the plan has no such scene
AssetOf(kind, id) ==
    IF plan.loaded /\ HasScene(plan, id) THEN SceneOf(plan, id)[AssetField(kind)] ELSE ""

\* C33: in every reachable state a unit whose status is completed has its asset
\* URL set in the current plan, also after the plan was regenerated while
\* statuses of an earlier plan exist and when a generation completes after the
\* plan was cleared.
C33_CompletedHasAsset ==
    \A kind \in UnitKinds, id \in SceneIds :
        StatusOf(kind, id) = "completed" => AssetOf(kind, id) # ""

\* the asset URLs that the scenes of the current plan hold
PlanAssets ==
    { plan.scenes[k][AssetField(kind)] : k \in 1..Len(plan.scenes), kind \in UnitKinds } \ {""}

\* C34: the result of a generation started on a scene of one plan is never written
\* into a scene of another plan: when a new plan was generated while the job was
\* in flight and has a scene with the same id, that scene's asset members stay
\* unset when the old job completes.
C34_NoResultFromEarlierPlan ==
    [][\A c \in calls :
          (c.n \in staleCalls /\ c \notin calls') => UrlOf(c.n) \notin PlanAssets']_vars

(***************************************************************************)
(* Properties of one generation request (checked under SpecUnit)           *)
(***************************************************************************)
\* C31: every generation request that sets a unit to running eventually sets it
\* to completed or failed, provided every network call returns or rejects: no unit
\* stays running for ever, and a polling loop ends within its budget of attempts.
C31_RunningUnitSettles ==
    /\ [](provider \in QueuedProviders => polls <= MaxAttempts(provider))
    /\ (unitStatus = "running") ~> (unitStatus \in {"completed", "failed"})

\* a request whose polling loop used its whole budget has ended
C31_Witness ==
    /\ upc = "ended"
    /\ provider \in QueuedProviders
    /\ polls = MaxAttempts(provider)
    /\ unitStatus \in {"completed", "failed"}

(***************************************************************************)
(* Properties of the video submit request (checked under SpecVideoRequest) *)
(***************************************************************************)
\* the request has been built and carries the number n as its duration
Carries(n) == vpc = "sent" /\ videoBody.duration = ToString(n)

\* C19: for every video model and requested duration the request carries a
\* duration of at most the model's maxDuration: exactly maxDuration when more was
\* requested, and the smaller of 5 and maxDuration when no duration was given.
C19_DurationIsClamped ==
    vpc = "sent" =>
        LET max == maxDuration(videoParams.model)
            requested == videoParams.durationSeconds
        IN /\ \E n \in 0..max : Carries(n)
           /\ (requested.given /\ requested.seconds > max) => Carries(max)
           /\ (requested.given /\ requested.seconds \in 1..max) => Carries(requested.seconds)
           /\ ~requested.given => Carries(IF 5 < max THEN 5 ELSE max)

\* C19 witness: eight seconds were requested of a model whose maximum is six, and
\* the request carries six
C19_Witness ==
    /\ vpc = "sent"
    /\ videoParams.model = "minimax"
    /\ videoParams.durationSeconds = [given |-> TRUE, seconds |-> 8]
    /\ videoBody.duration = "6"

(***************************************************************************)
(* Properties of the image submit request (checked under SpecImageRequest) *)
(***************************************************************************)
\* the selected model is a reference-consistency variant
KontextSelected == imageParams.model \in {"flux-kontext-pro", "fal-flux-kontext"}

\* C26: a supplied reference image is carried under image_url when the selected
\* model is a reference-consistency (kontext) variant and under image_prompt
\* otherwise; without a reference image the request carries neither member.
C26_ReferenceImageField ==
    ipc = "sent" =>
        LET ref == imageParams.referenceImageUrl
        IN /\ (ref # "" /\ KontextSelected) =>
                 imageBody.image_url = ref /\ imageBody.image_prompt = ""
           /\ (ref # "" /\ ~KontextSelected) =>
                 imageBody.image_prompt = ref /\ imageBody.image_url = ""
           /\ ref = "" => imageBody.image_url = "" /\ imageBody.image_prompt = ""

\* C36: in the Replicate adapter the member that carries the reference image
\* agrees with the model the prediction is submitted to: image_url whenever that
\* model is the kontext model, also when it is the fallback for a model name the
\* adapter does not know, and image_prompt otherwise.
C36_ReplicateFieldAgreesWithModel ==
    (ipc = "sent" /\ imageParams.provider = "replicate" /\ imageParams.referenceImageUrl # "") =>
        LET ref == imageParams.referenceImageUrl
        IN IF imageBody.target = "black-forest-labs/flux-kontext-pro"
           THEN imageBody.image_url = ref /\ imageBody.image_prompt = ""
           ELSE imageBody.image_prompt = ref /\ imageBody.image_url = ""

(***************************************************************************)
(* Properties of the speech request of a dialogue line (checked under      *)
(* SpecVoiceRequest)                                                       *)
(***************************************************************************)
\* generateDialogue got past its guards: the line is not blank and the selected
\* provider has a key
DialogueStarted == cpc = "ended" /\ voiceInput.line # "" /\ voiceInput.key # ""

\* the characters of the plan whose id is the line's character id
Speakers ==
    IF voiceInput.characters.present
    THEN {voiceInput.characters.list[k] :
            k \in Matching(voiceInput.characters, voiceInput.characterId)}
    ELSE {}

C25_ElevenLabsUsesCharacterVoice ==
    (DialogueStarted /\ voiceInput.ttsProvider = "elevenlabs" /\ voiceRequest.sent) =>
        \/ \E c \in Speakers : c.voice.elevenLabsVoiceId # ""
                               /\ voiceRequest.voiceId = c.voice.elevenLabsVoiceId
        \/ /\ \A c \in Speakers : c.voice.elevenLabsVoiceId = ""
           /\ voiceRequest.voiceId = "21m00Tcm4TlvDq8ikWAM"

====
